---- MODULE Spec2Model ----
(***************************************************************************)
(* Ant clustering simulation: the grid topology (Ground::getPossiblePositions),*)
(* the agent (Ant::move, Ant::updateMemory) and the ground orchestration   *)
(* (Ground::moveAnts, assignWork, handleAntInteractions,                   *)
(* averageClusterSize).                                                    *)
(*                                                                         *)
(* Real numbers of the program (probabilities, densities, means) are exact *)
(* rationals <<numerator, denominator>> with a positive denominator.       *)
(***************************************************************************)
EXTENDS Integers, Sequences, FiniteSets, TLC

VARIABLES
    width,               \* Ground::width
    length,              \* Ground::length
    possiblePositions,   \* Ground::possiblePositions  (cell -> list of cells)
    agents,              \* Ground::agents             (sequence of Ant)
    obj,                 \* Ground::obj                (cell -> object or nullptr)
    probabilities,       \* Ground::probabilities
    probRelu,            \* Ground::probRelu           (<<a, b>>)
    similarityThreshold, \* Ground::similarityThreshold
    cooldown_duration,   \* Ground::cooldown_duration
    interactionCounter,  \* Ground::interactionCounter
    phase,               \* "new", then "threw" or "ready", "populated", "running"
    op,                  \* name of the operation that produced this state
    calls,               \* log of the arguments passed to Ant::updateMemory
    fired,               \* indices of the agents whose interaction fired in the last call
    rand,                \* the uniform draws consumed by the last assignWork, per agent
    ret,                 \* value returned by the last averageClusterSize
    steps,               \* number of moveAnts/assignWork/handleAntInteractions calls so far
    ub,                  \* TRUE once an operation with undefined behaviour was executed
    gens,                \* states of the function-static generators of the process
    runs,                \* per run of a comparison or thread of the driver: its record
    ramp,                \* [density, prob, name] the last assignWork computed, per agent
    sinceFired           \* per agent: handleAntInteractions calls completed since the
                         \* call in which it last fired, Never before its first firing

vars == << width, length, possiblePositions, agents, obj, probabilities, probRelu,
           similarityThreshold, cooldown_duration, interactionCounter,
           phase, op, calls, fired, rand, ret, steps, ub, gens, runs, ramp, sinceFired >>

----------------------------------------------------------------------------
(* Bounds of the model *)

MaxDim == 6          \* grid sides tried by the constructor: -1..MaxDim
MaxMem == 3          \* memory capacities 0..MaxMem of the unit-tested Ant
MaxCalls == 4        \* updateMemory calls on the unit-tested Ant

----------------------------------------------------------------------------
(* Config.h *)

NUM_DIRECTIONS == 8
None == 0
Food == 1
Waste == 2
Egg == 3

----------------------------------------------------------------------------
(* Generic helpers *)

Range(s) == { s[i] : i \in DOMAIN s }

Min(a, b) == IF a <= b THEN a ELSE b

\* std::count(first, last, value)
Count(s, v) == Cardinality({ i \in DOMAIN s : s[i] = v })

\* The last n elements of s, in order.
LastN(s, n) == SubSeq(s, Len(s) - n + 1, Len(s))

\* reverse iteration (rbegin .. rend)
Reverse(s) == [ i \in 1..Len(s) |-> s[Len(s) + 1 - i] ]

RotateBack(s, n) == [ i \in 1..Len(s) |-> s[((i - 1 + Len(s) - n) % Len(s)) + 1] ]

\* std::rotate(first, first + n, last): the element at offset n becomes the first
Rotate(s, n) == [ i \in 1..Len(s) |-> s[((i - 1 + n) % Len(s)) + 1] ]

----------------------------------------------------------------------------
(* Objects.h: object instances are compared by reference; the class of an   *)
(* instance is what dynamic_pointer_cast inspects.                          *)

NULL == "nullptr"

ObjectIds == { "food1", "food2", "waste1", "egg1", "object1" }

ClassOf(o) ==
    CASE o \in { "food1", "food2" } -> "Food"
      [] o = "waste1"               -> "Waste"
      [] o = "egg1"                 -> "Egg"
      [] OTHER                      -> "Object"

\* static int getTypeFromLoad(load); the same cascade is inlined in updateMemory
getTypeFromLoad(load) ==
    IF load # NULL /\ ClassOf(load) = "Food" THEN Food
    ELSE IF load # NULL /\ ClassOf(load) = "Waste" THEN Waste
    ELSE IF load # NULL /\ ClassOf(load) = "Egg" THEN Egg
    ELSE None

----------------------------------------------------------------------------
(* Ground::getPossiblePositions *)

neighborOffsetsRook == << <<0, -1>>, <<1, 0>>, <<0, 1>>, <<-1, 0>> >>

neighborOffsets ==
    << <<0, -1>>, <<1, -1>>, <<1, 0>>, <<1, 1>>,
       <<0, 1>>, <<-1, 1>>, <<-1, 0>>, <<-1, -1>> >>

Cells(w, l) == { <<x, y>> : x \in 0..(w - 1), y \in 0..(l - 1) }

InBoundsOffByOne(nx, ny, w, l) == nx >= 0 /\ nx <= w /\ ny >= 0 /\ ny < l

\* if (nx >= 0 && nx < width && ny >= 0 && ny < length)
InBounds(nx, ny, w, l) == nx >= 0 /\ nx < w /\ ny >= 0 /\ ny < l

neighborsWithSelf(x, y, w, l) ==
    << << x, y >> >> \o
    SelectSeq([ i \in 1..Len(neighborOffsets) |->
                  << x + neighborOffsets[i][1], y + neighborOffsets[i][2] >> ],
              LAMBDA p : InBounds(p[1], p[2], w, l))

\* the inner loop over neighborOffsets for the cell (x, y)
neighbors(x, y, w, l) ==
    SelectSeq([ i \in 1..Len(neighborOffsets) |->
                  << x + neighborOffsets[i][1], y + neighborOffsets[i][2] >> ],
              LAMBDA p : InBounds(p[1], p[2], w, l))

getPossiblePositions(w, l) == [ c \in Cells(w, l) |-> neighbors(c[1], c[2], w, l) ]

\* possiblePositions[pos] on the non-const map: a missing key is inserted with
\* an empty list.
Lookup(pp, pos) == IF pos \in DOMAIN pp THEN pp[pos] ELSE << >>

TouchResets(pp, pos) == (pos :> << >>) @@ pp

Touch(pp, pos) == IF pos \in DOMAIN pp THEN pp ELSE pp @@ (pos :> << >>)

\* auto it = obj.find(pos); (it != obj.end()) ? it->second : nullptr
ObjAt(o, pos) == IF pos \in DOMAIN o THEN o[pos] ELSE NULL

----------------------------------------------------------------------------
(* Ant *)

\* Ant::Ant; dir is the value drawn by getRandomDirection()
Ant(position, recordPath, memorySize, dir) ==
    [ position |-> position,
      memorySize |-> memorySize,
      prevDirection |-> dir,
      load |-> NULL,
      memory |-> << >>,
      recordPath |-> recordPath,
      visitedPositions |-> {},
      interactionCooldown |-> 0 ]

\* Ant::getRandomDirection: uniform over North .. NorthWest
getRandomDirection == 0..(NUM_DIRECTIONS - 1)

evictNewest(memory) == SubSeq(memory, 1, Len(memory) - 1)

\* memory.pop_front() on a non-empty deque
pop_front(memory) == Tail(memory)

\* Ant::updateMemory hits undefined behaviour when it pops an empty deque:
\* memory.size() >= memorySize holds with memorySize = 0 and nothing stored.
updateMemoryUB(ant, seenObject) ==
    /\ seenObject # NULL
    /\ getTypeFromLoad(seenObject) # None
    /\ Len(ant.memory) >= ant.memorySize
    /\ ant.memory = << >>

updateMemoryStoresNone(ant, seenObject) ==
    LET objectType == getTypeFromLoad(seenObject)
        kept == IF Len(ant.memory) >= ant.memorySize /\ ant.memory # << >>
                THEN pop_front(ant.memory)
                ELSE ant.memory
    IN [ ant EXCEPT !.memory = Append(kept, objectType) ]

updateMemoryOnce(ant, seenObject) ==
    IF seenObject = NULL \/ getTypeFromLoad(seenObject) = None
    THEN ant
    ELSE IF ant.memory # << >>
            /\ ant.memory[Len(ant.memory)] = getTypeFromLoad(seenObject)
    THEN ant
    ELSE [ ant EXCEPT !.memory =
             Append(IF Len(@) >= ant.memorySize THEN pop_front(@) ELSE @,
                    getTypeFromLoad(seenObject)) ]

\* Ant::updateMemory where its behaviour is defined
updateMemory(ant, seenObject) ==
    IF seenObject = NULL THEN ant
    ELSE LET objectType == getTypeFromLoad(seenObject) IN
         IF objectType # None
         THEN LET kept == IF Len(ant.memory) >= ant.memorySize
                          THEN pop_front(ant.memory)
                          ELSE ant.memory
              IN [ ant EXCEPT !.memory = Append(kept, objectType) ]
         ELSE ant

\* What a build can leave behind after pop_front() on the empty deque followed
\* by push_back(): the size counter wrapped and came back to 0, or the pop had
\* no effect and the pushed code is stored.
updateMemoryUBOutcomes(ant, seenObject) ==
    { [ ant EXCEPT !.memory = << >> ],
      [ ant EXCEPT !.memory = << getTypeFromLoad(seenObject) >> ] }

----------------------------------------------------------------------------
(* Ant::move *)

movementDictNorthUp ==
    (0 :> << 0, 1 >>) @@ (1 :> << 1, 1 >>) @@ (2 :> << 1, 0 >>) @@
    (3 :> << 1, -1 >>) @@ (4 :> << 0, -1 >>) @@ (5 :> << -1, -1 >>) @@
    (6 :> << -1, 0 >>) @@ (7 :> << -1, 1 >>)

\* Ant::updateMovementDict: direction -> displacement
movementDict ==
    (0 :> << 0, -1 >>) @@ (1 :> << 1, -1 >>) @@ (2 :> << 1, 0 >>) @@
    (3 :> << 1, 1 >>) @@ (4 :> << 0, 1 >>) @@ (5 :> << -1, 1 >>) @@
    (6 :> << -1, 0 >>) @@ (7 :> << -1, -1 >>)

\* invMovementDict[kv.second] = kv.first
invMovementDict ==
    [ d \in { movementDict[k] : k \in DOMAIN movementDict } |->
        CHOOSE k \in DOMAIN movementDict : movementDict[k] = d ]

\* std::rotate(shifted.rbegin(), shifted.rbegin() + n, shifted.rend()) with
\* n = prevDirection % size: the table the distribution is built from
shiftedWeights(probs, prevDirection) ==
    LET n == prevDirection % Len(probs)
    IN Reverse(Rotate(Reverse(probs), n))

\* Ant::getRandomWeightedDirection: the indices std::discrete_distribution can
\* return for the rotated weights, i.e. those of positive weight.
getRandomWeightedDirection(probs, prevDirection) ==
    LET size == Len(probs)
        shifted == shiftedWeights(probs, prevDirection)
    IN { i \in 0..(size - 1) : shifted[i + 1] > 0 }

recordVisitUnloaded(ant) ==
    IF ant.recordPath
    THEN [ ant EXCEPT !.visitedPositions = @ \cup { ant.position },
                      !.load = NULL ]
    ELSE ant

\* if (recordPath) visitedPositions.insert(position)
recordVisit(ant) ==
    IF ant.recordPath
    THEN [ ant EXCEPT !.visitedPositions = @ \cup { ant.position } ]
    ELSE ant

interiorStepTwice(ant, newDirection) ==
    recordVisit([ ant EXCEPT
        !.position = << ant.position[1] + 2 * movementDict[newDirection][1],
                        ant.position[2] + 2 * movementDict[newDirection][2] >>,
        !.prevDirection = newDirection ])

\* the branch nextStepsList.size() == NUM_DIRECTIONS, for the direction drawn
interiorStep(ant, newDirection) ==
    recordVisit([ ant EXCEPT
        !.position = << ant.position[1] + movementDict[newDirection][1],
                        ant.position[2] + movementDict[newDirection][2] >>,
        !.prevDirection = newDirection ])

boundaryStepKeepsHeading(ant, newPosition) ==
    recordVisit([ ant EXCEPT !.position = newPosition ])

\* the else branch once the new position was read from nextStepsList
boundaryStep(ant, newPosition) ==
    LET dx == newPosition[1] - ant.position[1]
        dy == newPosition[2] - ant.position[2]
    IN recordVisit([ ant EXCEPT
           !.position = newPosition,
           !.prevDirection = IF << dx, dy >> \in DOMAIN invMovementDict
                             THEN invMovementDict[<< dx, dy >>]
                             ELSE @ ])

\* With an empty nextStepsList the else branch builds
\* uniform_int_distribution(0, size() - 1) with an upper end below the lower
\* one and reads nextStepsList[...] of an empty vector: undefined behaviour.
\* The values such a read can deliver: the cell itself (also the state a
\* crashing run stops in), or a pair off the grid.  No operation is modelled
\* after it.
StrayPositions(ant) == { ant.position, << 5, 7 >> }

\* Ant::move: the set of outcomes [ant, ub] over the random draws
move(ant, pp, probs) ==
    IF ant.position \notin DOMAIN pp
    THEN { [ ant |-> ant, ub |-> FALSE ] }
    ELSE LET nextStepsList == pp[ant.position] IN
         IF Len(nextStepsList) = NUM_DIRECTIONS
         THEN { [ ant |-> interiorStep(ant, d), ub |-> FALSE ] :
                  d \in getRandomWeightedDirection(probs, ant.prevDirection) }
         ELSE IF Len(nextStepsList) = 0
         THEN { [ ant |-> boundaryStep(ant, p), ub |-> TRUE ] :
                  p \in StrayPositions(ant) }
         ELSE { [ ant |-> boundaryStep(ant, nextStepsList[k]), ub |-> FALSE ] :
                  k \in 1..Len(nextStepsList) }

\* Ground::moveAnts: every ant moves in turn; the set of outcomes
\* [agents, ub] over all draws.
RECURSIVE moveAnts(_, _, _, _)
moveAnts(as, pp, probs, i) ==
    IF i > Len(as)
    THEN { [ agents |-> as, ub |-> FALSE ] }
    ELSE UNION { { [ agents |-> [ rest.agents EXCEPT ![i] = m.ant ],
                     ub |-> m.ub \/ rest.ub ] :
                     rest \in moveAnts(as, pp, probs, i + 1) } :
                 m \in move(as[i], pp, probs) }

----------------------------------------------------------------------------
(* Ground::assignWork *)

NaN == "NaN"

reluRangeUnclamped(x, a, b) ==
    << (x[1] * a[2] - a[1] * x[2]) * b[2],
       x[2] * (b[1] * a[2] - a[1] * b[2]) >>

\* Ground::reluRange on exact rationals; x is NaN when the cell has no neighbor
\* (0.0 / 0), and every comparison with NaN is false.
reluRange(x, a, b) ==
    IF x = NaN THEN NaN
    ELSE IF x[1] * a[2] < a[1] * x[2] THEN << 0, 1 >>
    ELSE IF x[1] * b[2] > b[1] * x[2] THEN << 1, 1 >>
    ELSE << (x[1] * a[2] - a[1] * x[2]) * b[2],
            x[2] * (b[1] * a[2] - a[1] * b[2]) >>

\* double(neighborCount) / possiblePositions[pos].size()
density(neighborCount, size) ==
    IF size = 0 THEN NaN ELSE << neighborCount, size >>

\* Ground::countNeighbors: the neighbors holding the very object objType
countNeighbors(o, pp, pos, objType) ==
    Cardinality({ k \in DOMAIN Lookup(pp, pos) :
                     LET neighbor == Lookup(pp, pos)[k] IN
                     neighbor \in DOMAIN o /\ o[neighbor] = objType })

reaches(randVal, prob) ==
    prob # NaN /\ randVal[1] * prob[2] >= prob[1] * randVal[2]

\* randVal > pickProb
exceeds(randVal, prob) ==
    prob # NaN /\ randVal[1] * prob[2] > prob[1] * randVal[2]

below(randVal, prob) ==
    prob # NaN /\ randVal[1] * prob[2] < prob[1] * randVal[2]

\* randVal <= dropProb
atMost(randVal, prob) ==
    prob # NaN /\ randVal[1] * prob[2] <= prob[1] * randVal[2]

keepCell(o, pos) == o

\* obj[pos] = nullptr
clearCell(o, pos) == (pos :> NULL) @@ o

\* The body of the loop of Ground::assignWork for agent i, whose uniform draw
\* (if it reaches dist(gen)) is randVal. st = [agents, obj, pp, rand, ramp].
assignOne(st, i, randVal, relu) ==
    LET ant == st.agents[i]
        pos == ant.position
        groundObject == ObjAt(st.obj, pos)
        carried == ant.load
        seen == updateMemory(ant, groundObject)
    IN
    IF carried = NULL
    THEN IF groundObject # NULL
         THEN LET neighborCount == countNeighbors(st.obj, st.pp, pos, groundObject)
                  pp2 == Touch(st.pp, pos)
                  x == density(neighborCount, Len(pp2[pos]))
                  pickProb == reluRange(x, relu[1], relu[2])
                  computed == [ st.ramp EXCEPT ![i] =
                                  [ density |-> x, prob |-> pickProb,
                                    name |-> "pickProb" ] ]
              IN IF exceeds(randVal, pickProb)
                 THEN [ agents |-> [ st.agents EXCEPT ![i] =
                            updateMemory([ seen EXCEPT !.load = groundObject ],
                                         groundObject) ],
                        obj |-> clearCell(st.obj, pos),
                        pp |-> pp2,
                        rand |-> [ st.rand EXCEPT ![i] = randVal ],
                        ramp |-> computed ]
                 ELSE [ agents |-> [ st.agents EXCEPT ![i] = seen ],
                        obj |-> st.obj,
                        pp |-> pp2,
                        rand |-> [ st.rand EXCEPT ![i] = randVal ],
                        ramp |-> computed ]
         ELSE [ st EXCEPT !.agents[i] = seen ]
    ELSE LET held == updateMemory(seen, carried)
             neighborCount == countNeighbors(st.obj, st.pp, pos, carried)
             pp2 == Touch(st.pp, pos)
             x == density(neighborCount, Len(pp2[pos]))
             dropProb == reluRange(x, relu[1], relu[2])
             computed == [ st.ramp EXCEPT ![i] =
                             [ density |-> x, prob |-> dropProb,
                               name |-> "dropProb" ] ]
         IN IF atMost(randVal, dropProb)
            THEN IF groundObject = NULL
                 THEN [ agents |-> [ st.agents EXCEPT ![i] =
                            updateMemory([ held EXCEPT !.load = NULL ], carried) ],
                        obj |-> (pos :> carried) @@ st.obj,
                        pp |-> pp2,
                        rand |-> [ st.rand EXCEPT ![i] = randVal ],
                        ramp |-> computed ]
                 ELSE [ agents |-> [ st.agents EXCEPT ![i] =
                            updateMemory(
                                updateMemory([ held EXCEPT !.load = groundObject ],
                                             carried),
                                groundObject) ],
                        obj |-> (pos :> carried) @@ st.obj,
                        pp |-> pp2,
                        rand |-> [ st.rand EXCEPT ![i] = randVal ],
                        ramp |-> computed ]
            ELSE [ agents |-> [ st.agents EXCEPT ![i] = held ],
                   obj |-> st.obj,
                   pp |-> pp2,
                   rand |-> [ st.rand EXCEPT ![i] = randVal ],
                   ramp |-> computed ]

\* Ground::assignWork: the loop over the agents, draws[i] being the i-th
\* agent's uniform draw
RECURSIVE assignWork(_, _, _, _)
assignWork(st, draws, relu, i) ==
    IF i > Len(st.agents)
    THEN st
    ELSE assignWork(assignOne(st, i, draws[i], relu), draws, relu, i + 1)

----------------------------------------------------------------------------
(* Ground::handleAntInteractions *)

positionsMapDescending(as, cell) ==
    Reverse(SelectSeq([ i \in 1..Len(as) |-> i ],
                      LAMBDA i : as[i].position = cell))

\* positionsMap[cell]: the indices of the agents standing on cell, ascending
positionsMap(as, cell) ==
    SelectSeq([ i \in 1..Len(as) |-> i ], LAMBDA i : as[i].position = cell)

\* The agents antA meets, in the order of the two nested loops: the neighbor
\* cells in topology order, the agents of one cell by index.
RECURSIVE partners(_, _, _)
partners(as, neighborCells, k) ==
    IF k > Len(neighborCells)
    THEN << >>
    ELSE positionsMap(as, neighborCells[k]) \o partners(as, neighborCells, k + 1)

similarityOfTheReady(antA, antB) ==
    IF antB.interactionCooldown = 0
    THEN Count(antB.memory, getTypeFromLoad(antA.load))
    ELSE -1

\* std::count(antB.getMemory().begin(), antB.getMemory().end(), loadType)
similarity(antA, antB) == Count(antB.memory, getTypeFromLoad(antA.load))

exceedsThreshold(sim, threshold) == sim > threshold

meetsThresholdOnAMatch(sim, threshold) == sim >= threshold /\ sim > 0

\* if (similarity >= similarityThreshold)
meetsThreshold(sim, threshold) == sim >= threshold

reversedUnwrapped(dir) == dir + 4

\* (antB.getPrevDirection() + 4) % AIConfig::NUM_DIRECTIONS
reversed(dir) == (dir + 4) % NUM_DIRECTIONS

firingsTwice(hits) == 2

\* interactionCounter++ runs once per acting agent: the two breaks end its
\* scan at the first partner that qualifies, however many do.
firings(hits) == 1

interactOnePairwise(st, i, threshold, cooldown) ==
    LET antA == st.agents[i] IN
    IF antA.interactionCooldown # 0 \/ antA.load = NULL
    THEN st
    ELSE LET pp2 == Touch(st.pp, antA.position)
             met == partners(st.agents, pp2[antA.position], 1)
             hits == { k \in DOMAIN met :
                          meetsThreshold(similarity(antA, st.agents[met[k]]),
                                         threshold) }
         IN IF hits = {}
            THEN [ st EXCEPT !.pp = pp2 ]
            ELSE LET first == CHOOSE k \in hits : \A h \in hits : k <= h
                     antB == st.agents[met[first]]
                 IN [ agents |-> [ st.agents EXCEPT
                          ![i] = [ antA EXCEPT
                                     !.prevDirection = reversed(antB.prevDirection),
                                     !.interactionCooldown = cooldown ],
                          ![met[first]] = [ antB EXCEPT
                                     !.interactionCooldown = cooldown ] ],
                      pp |-> pp2,
                      counter |-> st.counter + firings(hits),
                      fired |-> st.fired \cup { i } ]

\* Phase A for agent i. st = [agents, pp, counter, fired].
interactOne(st, i, threshold, cooldown) ==
    LET antA == st.agents[i] IN
    IF antA.interactionCooldown # 0 \/ antA.load = NULL
    THEN st
    ELSE LET pp2 == Touch(st.pp, antA.position)
             met == partners(st.agents, pp2[antA.position], 1)
             hits == { k \in DOMAIN met :
                          meetsThreshold(similarity(antA, st.agents[met[k]]),
                                         threshold) }
         IN IF hits = {}
            THEN [ st EXCEPT !.pp = pp2 ]
            ELSE LET first == CHOOSE k \in hits : \A h \in hits : k <= h
                     antB == st.agents[met[first]]
                 IN [ agents |-> [ st.agents EXCEPT ![i] =
                          [ antA EXCEPT
                              !.prevDirection = reversed(antB.prevDirection),
                              !.interactionCooldown = cooldown ] ],
                      pp |-> pp2,
                      counter |-> st.counter + firings(hits),
                      fired |-> st.fired \cup { i } ]

RECURSIVE interactAll(_, _, _, _)
interactAll(st, threshold, cooldown, i) ==
    IF i > Len(st.agents)
    THEN st
    ELSE interactAll(interactOne(st, i, threshold, cooldown),
                     threshold, cooldown, i + 1)

decayAlways(ant) == [ ant EXCEPT !.interactionCooldown = @ - 1 ]

decayAtOnce(ant) == [ ant EXCEPT !.interactionCooldown = 0 ]

\* Phase B for one agent: if (cooldown > 0) setInteractionCooldown(cooldown - 1)
decay(ant) ==
    IF ant.interactionCooldown > 0
    THEN [ ant EXCEPT !.interactionCooldown = @ - 1 ]
    ELSE ant

handleAntInteractionsDecayFirst(as, pp, counter, threshold, cooldown) ==
    interactAll([ agents |-> [ i \in DOMAIN as |-> decay(as[i]) ], pp |-> pp,
                  counter |-> counter, fired |-> {} ], threshold, cooldown, 1)

\* Ground::handleAntInteractions: Phase A over all agents, then Phase B
handleAntInteractions(as, pp, counter, threshold, cooldown) ==
    LET a == interactAll([ agents |-> as, pp |-> pp, counter |-> counter,
                           fired |-> {} ], threshold, cooldown, 1)
    IN [ a EXCEPT !.agents = [ i \in DOMAIN a.agents |-> decay(a.agents[i]) ] ]

----------------------------------------------------------------------------
(* Values of the variables a specification does not use *)

NoGround ==
    /\ obj = << >>
    /\ probabilities = << >>
    /\ probRelu = << >>
    /\ similarityThreshold = 0
    /\ cooldown_duration = 0
    /\ interactionCounter = 0

NoGhost ==
    /\ fired = {}
    /\ rand = << >>
    /\ ret = << 0, 1 >>
    /\ gens = << >>
    /\ runs = << >>
    /\ ramp = << >>
    /\ sinceFired = << >>

----------------------------------------------------------------------------
(* SpecTopo: the constructor Ground::Ground over all grid dimensions *)

InitTopo ==
    /\ width \in -1..MaxDim
    /\ length \in -1..MaxDim
    /\ possiblePositions = << >>
    /\ agents = << >>
    /\ NoGround
    /\ NoGhost
    /\ phase = "new"
    /\ op = "none"
    /\ calls = << >>
    /\ steps = 0
    /\ ub = FALSE

invalidDimensionsNegative(w, l) == w < 0 \/ l < 0

\* if (width <= 0 || length <= 0)
invalidDimensions(w, l) == w <= 0 \/ l <= 0

\* Ground::Ground: throws std::invalid_argument on a non-positive dimension,
\* otherwise stores getPossiblePositions()
GroundCtor ==
    /\ phase = "new"
    /\ IF invalidDimensions(width, length)
       THEN /\ phase' = "threw"
            /\ possiblePositions' = possiblePositions
       ELSE /\ phase' = "ready"
            /\ possiblePositions' = getPossiblePositions(width, length)
    /\ op' = "Ground"
    /\ UNCHANGED << width, length, agents, obj, probabilities, probRelu,
                    similarityThreshold, cooldown_duration, interactionCounter,
                    calls, fired, rand, ret, steps, ub, gens, runs, ramp, sinceFired >>

NextTopo == GroundCtor

SpecTopo == InitTopo /\ [][NextTopo]_vars

----------------------------------------------------------------------------
(* SpecMem: one Ant constructed as the unit tests do, driven by updateMemory *)

InitMem ==
    /\ width = 0
    /\ length = 0
    /\ possiblePositions = << >>
    /\ \E m \in 0..MaxMem, d \in getRandomDirection :
          agents = << Ant(<< 0, 0 >>, FALSE, m, d) >>
    /\ NoGround
    /\ NoGhost
    /\ phase = "ready"
    /\ op = "none"
    /\ calls = << >>
    /\ steps = 0
    /\ ub = FALSE

\* testAnt.updateMemory(seenObject)
AntUpdateMemory ==
    /\ Len(calls) < MaxCalls
    /\ \E seenObject \in ObjectIds \cup { NULL } :
          /\ IF updateMemoryUB(agents[1], seenObject)
             THEN /\ \E a \in updateMemoryUBOutcomes(agents[1], seenObject) :
                        agents' = << a >>
                  /\ ub' = TRUE
             ELSE /\ agents' = << updateMemory(agents[1], seenObject) >>
                  /\ ub' = ub
          /\ calls' = Append(calls, seenObject)
    /\ op' = "updateMemory"
    /\ UNCHANGED << width, length, possiblePositions, obj, probabilities, probRelu,
                    similarityThreshold, cooldown_duration, interactionCounter,
                    phase, fired, rand, ret, steps, gens, runs, ramp, sinceFired >>

NextMem == AntUpdateMemory

SpecMem == InitMem /\ [][NextMem]_vars

----------------------------------------------------------------------------
(* Ground: occupancy and the cluster metric *)

\* Ground::addObject: drawn[c] is the key getRandomObject returned for cell c;
\* only non-null draws are stored (obj[{x, y}] = tempObject).
addObject(o, drawn) ==
    [ c \in { c \in DOMAIN drawn : drawn[c] # NULL } |-> drawn[c] ] @@ o

\* The cells in the order of the nested loops: x outer, y inner.
ScanOrder(w, l) == [ k \in 1..(w * l) |-> << (k - 1) \div l, (k - 1) % l >> ]

\* isValidType: the occupant is a Food, a Waste or an Egg
isValidType(o) == ClassOf(o) \in { "Food", "Waste", "Egg" }

enqueueNothing(queue, list, visited) == queue

\* for (auto& neighbor : possiblePositions[current])
\*     if (not visited) queue.push_back(neighbor);
enqueue(queue, list, visited) ==
    queue \o SelectSeq(list, LAMBDA n : n \notin visited)

\* Ground::bfsCluster, from the while loop on: returns the cluster size, the
\* visited set it leaves behind, and possiblePositions after the subscripts
\* possiblePositions[current].
RECURSIVE bfsLoop(_, _, _, _, _, _, _)
bfsLoop(o, pp, targetObj, queue, index, visited, clusterSize) ==
    IF index > Len(queue)
    THEN [ size |-> clusterSize, visited |-> visited, pp |-> pp ]
    ELSE LET current == queue[index] IN
         IF current \in visited
         THEN bfsLoop(o, pp, targetObj, queue, index + 1, visited, clusterSize)
         ELSE LET seen == visited \cup { current } IN
              IF current \in DOMAIN o /\ o[current] = targetObj
              THEN LET pp2 == Touch(pp, current) IN
                   bfsLoop(o, pp2, targetObj,
                           enqueue(queue, pp2[current], seen),
                           index + 1, seen, clusterSize + 1)
              ELSE bfsLoop(o, pp, targetObj, queue, index + 1, seen, clusterSize)

\* Ground::bfsCluster
bfsCluster(o, pp, w, l, startPos, targetObj, visited) ==
    IF startPos[1] < 0 \/ startPos[1] >= w \/ startPos[2] < 0 \/ startPos[2] >= l
    THEN [ size |-> 0, visited |-> visited, pp |-> pp ]
    ELSE bfsLoop(o, pp, targetObj, << startPos >>, 1, visited, 0)

\* Ground::averageClusterSize, the double loop: returns clusterSizes and
\* possiblePositions as the calls of bfsCluster leave it
RECURSIVE clusterScan(_, _, _, _, _, _, _)
clusterScan(o, pp, w, l, k, visited, clusterSizes) ==
    IF k > w * l
    THEN [ clusterSizes |-> clusterSizes, pp |-> pp ]
    ELSE LET pos == ScanOrder(w, l)[k] IN
         IF pos \in visited
         THEN clusterScan(o, pp, w, l, k + 1, visited, clusterSizes)
         ELSE IF ObjAt(o, pos) = NULL
         THEN clusterScan(o, pp, w, l, k + 1, visited \cup { pos }, clusterSizes)
         ELSE IF ~isValidType(o[pos])
         THEN clusterScan(o, pp, w, l, k + 1, visited \cup { pos }, clusterSizes)
         ELSE LET r == bfsCluster(o, pp, w, l, pos, o[pos], visited) IN
              clusterScan(o, r.pp, w, l, k + 1, r.visited,
                          IF r.size > 0 THEN Append(clusterSizes, r.size)
                                        ELSE clusterSizes)

RECURSIVE Sum(_)
Sum(s) == IF s = << >> THEN 0 ELSE Head(s) + Sum(Tail(s))

\* Ground::averageClusterSize: 0.0 without clusters, else sum / count
averageClusterSize(o, pp, w, l) ==
    LET clusterSizes == clusterScan(o, pp, w, l, 1, {}, << >>).clusterSizes IN
    IF clusterSizes = << >> THEN << 0, 1 >>
    ELSE << Sum(clusterSizes), Len(clusterSizes) >>

\* possiblePositions after Ground::averageClusterSize
scannedPositions(o, pp, w, l) == clusterScan(o, pp, w, l, 1, {}, << >>).pp

----------------------------------------------------------------------------
(* SpecCluster: a Ground populated by addObject and measured *)

MaxCells == 6        \* grids of at most MaxCells cells

\* The object dictionaries handed to addObject (the keys with a positive weight).
ObjDicts ==
    { { "food1", "food2", "waste1", NULL },
      { "food1", "object1", NULL },
      { "egg1" } }

InitCluster ==
    /\ width \in 1..MaxCells
    /\ length \in 1..MaxCells
    /\ width * length <= MaxCells
    /\ possiblePositions = getPossiblePositions(width, length)
    /\ agents = << >>
    /\ NoGround
    /\ NoGhost
    /\ phase = "ready"
    /\ op = "none"
    /\ calls = << >>
    /\ steps = 0
    /\ ub = FALSE

\* ground.addObject(objDict), once, during setup
AddObject ==
    /\ phase = "ready"
    /\ \E dict \in ObjDicts :
          \E drawn \in [ Cells(width, length) -> dict ] :
              obj' = addObject(obj, drawn)
    /\ phase' = "populated"
    /\ op' = "addObject"
    /\ UNCHANGED << width, length, possiblePositions, agents, probabilities, probRelu,
                    similarityThreshold, cooldown_duration, interactionCounter,
                    calls, fired, rand, ret, steps, ub, gens, runs, ramp, sinceFired >>

\* ground.averageClusterSize()
AverageClusterSize ==
    /\ phase \in { "ready", "populated" }
    /\ ret' = averageClusterSize(obj, possiblePositions, width, length)
    /\ possiblePositions' = scannedPositions(obj, possiblePositions, width, length)
    /\ op' = "averageClusterSize"
    /\ UNCHANGED << width, length, agents, obj, probabilities,
                    probRelu, similarityThreshold, cooldown_duration,
                    interactionCounter, phase, calls, fired, rand, steps, ub, gens, runs, ramp, sinceFired >>

NextCluster == AddObject \/ AverageClusterSize

SpecCluster == InitCluster /\ [][NextCluster]_vars

----------------------------------------------------------------------------
(* The simulation: setup by addAnt, then moveAnts, assignWork and          *)
(* handleAntInteractions in any order                                      *)

MaxSteps == 3        \* simulation calls per run
MaxAnts == 2         \* agents added during setup
MaxMemory == 2       \* memory capacities 1..MaxMemory given to addAnt
MaxThreshold == 2    \* similarity thresholds 0..MaxThreshold
MaxCooldown == 2     \* cooldown durations 0..MaxCooldown
MaxSide == 3         \* grid sides 1..MaxSide of the movement runs
MaxMoves == 2        \* moveAnts calls of the movement runs

\* std::vector<double> prob = { 12, 5, 2, 1, 0.1, 1, 2, 5 }, in tenths; only
\* the ratios matter to std::discrete_distribution
DriverProb == << 120, 50, 20, 10, 1, 10, 20, 50 >>

\* 8-entry direction tables of positive sum
ProbTables == { DriverProb,
                << 1, 0, 0, 0, 0, 0, 0, 0 >>,
                << 0, 3, 0, 0, 0, 1, 0, 0 >> }

\* AIConfig::DEFAULT_PROB_RELU = { 0.3, 0.7 }
DEFAULT_PROB_RELU == << << 3, 10 >>, << 7, 10 >> >>

\* rand[i] of an agent whose iteration of assignWork did not reach dist(gen)
NoDraw == "none"

\* ramp[i] of such an agent
NoRamp == [ density |-> NaN, prob |-> NaN, name |-> "none" ]

\* sinceFired[i] of an agent that never fired
Never == -1

\* sinceFired after a handleAntInteractions call in which firedNow fired
elapsed(since, firedNow) ==
    [ i \in DOMAIN since |->
        IF i \in firedNow THEN 0
        ELSE IF since[i] = Never THEN Never
        ELSE since[i] + 1 ]

\* values of dist(gen), uniform on [0, 1)
RandVals == { << 0, 1 >>, << 1, 2 >>, << 11, 12 >> }

\* the least and a large value of dist(gen)
RandEnds == { << 0, 1 >>, << 11, 12 >> }

\* ground.addAnt(memorySize): a random cell, a random heading; the agents of
\* one run share the memory size, as params.memory_size in the driver.
AddAnt(maxAnts, sizes, headings) ==
    /\ phase = "populated"
    /\ Len(agents) < maxAnts
    /\ \E position \in DOMAIN possiblePositions, dir \in headings, memorySize \in sizes :
          /\ agents # << >> => memorySize = agents[1].memorySize
          /\ agents' = Append(agents, Ant(position, TRUE, memorySize, dir))
    /\ sinceFired' = Append(sinceFired, Never)
    /\ op' = "addAnt"
    /\ UNCHANGED << width, length, possiblePositions, obj, probabilities, probRelu,
                    similarityThreshold, cooldown_duration, interactionCounter,
                    phase, calls, fired, rand, ret, steps, ub, gens, runs, ramp >>

\* ground.moveAnts(), once the colony is complete
MoveAnts(colony, maxCalls) ==
    /\ phase \in { "populated", "running" }
    /\ Len(agents) = colony
    /\ steps < maxCalls
    /\ ~ub
    /\ \E m \in moveAnts(agents, possiblePositions, probabilities, 1) :
          /\ agents' = m.agents
          /\ ub' = m.ub
    /\ phase' = "running"
    /\ op' = "moveAnts"
    /\ steps' = steps + 1
    /\ UNCHANGED << width, length, possiblePositions, obj, probabilities, probRelu,
                    similarityThreshold, cooldown_duration, interactionCounter,
                    calls, fired, rand, ret, gens, runs, ramp, sinceFired >>

\* ground.assignWork()
AssignWork(colony, maxCalls, randVals) ==
    /\ phase \in { "populated", "running" }
    /\ Len(agents) = colony
    /\ steps < maxCalls
    /\ ~ub
    /\ \E draws \in [ DOMAIN agents -> randVals ] :
          LET w == assignWork([ agents |-> agents, obj |-> obj,
                                pp |-> possiblePositions,
                                rand |-> [ i \in DOMAIN agents |-> NoDraw ],
                                ramp |-> [ i \in DOMAIN agents |-> NoRamp ] ],
                              draws, probRelu, 1)
          IN /\ agents' = w.agents
             /\ obj' = w.obj
             /\ possiblePositions' = w.pp
             /\ rand' = w.rand
             /\ ramp' = w.ramp
    /\ phase' = "running"
    /\ op' = "assignWork"
    /\ steps' = steps + 1
    /\ UNCHANGED << width, length, probabilities, probRelu, similarityThreshold,
                    cooldown_duration, interactionCounter, calls, fired, ret, ub, gens, runs,
                    sinceFired >>

\* ground.handleAntInteractions(i)
HandleAntInteractions(colony, maxCalls) ==
    /\ phase \in { "populated", "running" }
    /\ Len(agents) = colony
    /\ steps < maxCalls
    /\ ~ub
    /\ LET h == handleAntInteractions(agents, possiblePositions, interactionCounter,
                                      similarityThreshold, cooldown_duration)
       IN /\ agents' = h.agents
          /\ possiblePositions' = h.pp
          /\ interactionCounter' = h.counter
          /\ fired' = h.fired
          /\ sinceFired' = elapsed(sinceFired, h.fired)
    /\ phase' = "running"
    /\ op' = "handleAntInteractions"
    /\ steps' = steps + 1
    /\ UNCHANGED << width, length, obj, probabilities, probRelu, similarityThreshold,
                    cooldown_duration, calls, rand, ret, ub, gens, runs, ramp >>

\* ground.averageClusterSize() between the calls of a run
MeasureClusters(colony, maxCalls) ==
    /\ phase \in { "populated", "running" }
    /\ Len(agents) = colony
    /\ steps < maxCalls
    /\ ~ub
    /\ ret' = averageClusterSize(obj, possiblePositions, width, length)
    /\ possiblePositions' = scannedPositions(obj, possiblePositions, width, length)
    /\ phase' = "running"
    /\ op' = "averageClusterSize"
    /\ steps' = steps + 1
    /\ UNCHANGED << width, length, agents, obj, probabilities,
                    probRelu, similarityThreshold, cooldown_duration,
                    interactionCounter, calls, fired, rand, ub, gens, runs, ramp, sinceFired >>

----------------------------------------------------------------------------
(* SpecMove: one ant walking on an empty ground                            *)

InitMove ==
    /\ width \in 1..MaxSide
    /\ length \in 1..MaxSide
    /\ possiblePositions = getPossiblePositions(width, length)
    /\ agents = << >>
    /\ obj = << >>
    /\ probabilities \in ProbTables
    /\ probRelu = DEFAULT_PROB_RELU
    /\ similarityThreshold = 0
    /\ cooldown_duration = 0
    /\ interactionCounter = 0
    /\ NoGhost
    /\ phase = "populated"
    /\ op = "none"
    /\ calls = << >>
    /\ steps = 0
    /\ ub = FALSE

AddWalker == AddAnt(1, { 1 }, getRandomDirection)

Walk == MoveAnts(1, MaxMoves)

NextMove == AddWalker \/ Walk

SpecMove == InitMove /\ [][NextMove]_vars

----------------------------------------------------------------------------
(* Spec: a colony of MaxAnts ants at work on a strip of three cells        *)

\* the object instances handed to addObject
StripDict == { "food1", "waste1", NULL }

\* the heading getRandomDirection gives the ants of the strip (one sample of
\* 0..7; SpecMove starts from every heading)
Headings == { 6 }

Init ==
    /\ width = 1
    /\ length = 3
    /\ possiblePositions = getPossiblePositions(width, length)
    /\ agents = << >>
    /\ \E drawn \in [ Cells(width, length) -> StripDict ] :
          obj = addObject(<< >>, drawn)
    /\ probabilities = DriverProb
    /\ probRelu = DEFAULT_PROB_RELU
    /\ similarityThreshold \in 0..MaxThreshold
    /\ cooldown_duration \in 0..MaxCooldown
    /\ interactionCounter = 0
    /\ NoGhost
    /\ phase = "populated"
    /\ op = "none"
    /\ calls = << >>
    /\ steps = 0
    /\ ub = FALSE

AddWorker == AddAnt(MaxAnts, 1..MaxMemory, Headings)

Work == AssignWork(MaxAnts, MaxSteps, RandEnds)

Meet == HandleAntInteractions(MaxAnts, MaxSteps)

Next == AddWorker \/ Work \/ Meet

Spec == Init /\ [][Next]_vars

----------------------------------------------------------------------------
(* SpecRun: whole runs on the smallest grounds, every operation in any     *)
(* order                                                                   *)

MaxRunCells == 2     \* grounds of at most MaxRunCells cells
MaxRunSteps == 3     \* calls per run

InitRun ==
    /\ width \in 1..MaxRunCells
    /\ length \in 1..MaxRunCells
    /\ width * length <= MaxRunCells
    /\ possiblePositions = getPossiblePositions(width, length)
    /\ agents = << >>
    /\ \E drawn \in [ Cells(width, length) -> StripDict ] :
          obj = addObject(<< >>, drawn)
    /\ probabilities = DriverProb
    /\ probRelu = DEFAULT_PROB_RELU
    /\ similarityThreshold \in 0..MaxThreshold
    /\ cooldown_duration \in 0..MaxCooldown
    /\ interactionCounter = 0
    /\ NoGhost
    /\ phase = "populated"
    /\ op = "none"
    /\ calls = << >>
    /\ steps = 0
    /\ ub = FALSE

AddRunner == AddAnt(MaxAnts, 1..MaxMemory, Headings)

RunMove == MoveAnts(MaxAnts, MaxRunSteps)

RunWork == AssignWork(MaxAnts, MaxRunSteps, RandEnds)

RunMeet == HandleAntInteractions(MaxAnts, MaxRunSteps)

RunMeasure == MeasureClusters(MaxAnts, MaxRunSteps)

NextRun == AddRunner \/ RunMove \/ RunWork \/ RunMeet \/ RunMeasure

SpecRun == InitRun /\ [][NextRun]_vars

----------------------------------------------------------------------------
(* SpecDir: Ant::getRandomWeightedDirection over weight tables and headings *)

MaxWeight == 1       \* weights 0..MaxWeight in the tables tried, besides the driver's

\* the 8-entry tables std::discrete_distribution accepts: a positive sum
WeightTables ==
    { w \in [ 1..NUM_DIRECTIONS -> 0..MaxWeight ] : \E i \in DOMAIN w : w[i] > 0 }

\* an Ant of its own, as in test_movement_for_single_direction; the heading
\* passed to the call is the ant's prevDirection, as in Ant::move
InitDir ==
    /\ width = 0
    /\ length = 0
    /\ possiblePositions = << >>
    /\ \E dir \in getRandomDirection :
          agents = << Ant(<< 0, 0 >>, FALSE, 1, dir) >>
    /\ obj = << >>
    /\ probabilities \in WeightTables \cup { DriverProb }
    /\ probRelu = << >>
    /\ similarityThreshold = 0
    /\ cooldown_duration = 0
    /\ interactionCounter = 0
    /\ NoGhost
    /\ phase = "populated"
    /\ op = "none"
    /\ calls = << >>
    /\ steps = 0
    /\ ub = FALSE

\* int newDirection = getRandomWeightedDirection(probabilities, prevDirection)
GetRandomWeightedDirection ==
    /\ op = "none"
    /\ ret' \in getRandomWeightedDirection(probabilities, agents[1].prevDirection)
    /\ op' = "getRandomWeightedDirection"
    /\ UNCHANGED << width, length, possiblePositions, agents, obj, probabilities,
                    probRelu, similarityThreshold, cooldown_duration,
                    interactionCounter, phase, calls, fired, rand, steps, ub, gens, runs, ramp, sinceFired >>

NextDir == GetRandomWeightedDirection

SpecDir == InitDir /\ [][NextDir]_vars

----------------------------------------------------------------------------
(* Claims about the weighted direction (SpecDir) *)

\* C18: for every heading p and every table w the direction is sampled from
\* the table w' with w'[(i + p) mod 8] = w[i]; so when w[0] is the strict
\* maximum of w the heading p has the strictly largest weight, and a direction
\* of rotated weight 0 is never returned.
C18_WeightsRotateToTheHeading ==
    LET w == probabilities
        p == agents[1].prevDirection
        rotated == shiftedWeights(w, p)
    IN /\ \A i \in 0..(NUM_DIRECTIONS - 1) :
             rotated[((i + p) % NUM_DIRECTIONS) + 1] = w[i + 1]
       /\ (\A i \in 1..(NUM_DIRECTIONS - 1) : w[1] > w[i + 1]) =>
             \A d \in 0..(NUM_DIRECTIONS - 1) :
                 d # p => rotated[p + 1] > rotated[d + 1]
       /\ op = "getRandomWeightedDirection" =>
             /\ ret \in 0..(NUM_DIRECTIONS - 1)
             /\ rotated[ret + 1] > 0
             /\ w[((ret + NUM_DIRECTIONS - p) % NUM_DIRECTIONS) + 1] > 0

\* heading 3 and the driver's table, whose largest weight is w[0]: the draw
\* returned the about-turn, direction 7, of the smallest weight w[4]
C18_Witness ==
    /\ op = "getRandomWeightedDirection"
    /\ agents[1].prevDirection = 3
    /\ probabilities = DriverProb
    /\ ret = 7

----------------------------------------------------------------------------
(* SpecWork: one agent moving and working on a 2x2 ground that holds two    *)
(* Food instances and a Waste                                               *)

MaxWorkSteps == 3    \* calls per run
MaxWorkMemory == 4   \* memory capacity of the agent

\* the keys of the object dictionary
WorkDict == { "food1", "food2", "waste1", NULL }

\* uniform draws: both ends and the two values the ramp takes in between on
\* a cell with three neighbors
WorkDraws == { << 0, 1 >>, << 1, 12 >>, << 11, 12 >> }

InitWork ==
    /\ width = 2
    /\ length = 2
    /\ possiblePositions = getPossiblePositions(width, length)
    /\ agents = << >>
    /\ \E drawn \in [ Cells(width, length) -> WorkDict ] :
          obj = addObject(<< >>, drawn)
    /\ probabilities = DriverProb
    /\ probRelu = DEFAULT_PROB_RELU
    /\ similarityThreshold = 0
    /\ cooldown_duration = 0
    /\ interactionCounter = 0
    /\ NoGhost
    /\ phase = "populated"
    /\ op = "none"
    /\ calls = << >>
    /\ steps = 0
    /\ ub = FALSE

AddForager == AddAnt(1, { MaxWorkMemory }, Headings)

Forage == MoveAnts(1, MaxWorkSteps)

WorkAlone == AssignWork(1, MaxWorkSteps, WorkDraws)

NextWork == AddForager \/ Forage \/ WorkAlone

SpecWork == InitWork /\ [][NextWork]_vars

----------------------------------------------------------------------------
(* SpecMeet: three agents of two headings on the strip, which holds two     *)
(* Food instances; an interaction needs one matching code in the partner's  *)
(* memory                                                                   *)

MaxMeetAnts == 3     \* agents
MaxMeetSteps == 2    \* calls per run

MeetDict == { "food1", "food2", NULL }

\* the headings getRandomDirection gives the agents (two samples of 0..7)
MeetHeadings == { 1, 6 }

InitMeet ==
    /\ width = 1
    /\ length = 3
    /\ possiblePositions = getPossiblePositions(width, length)
    /\ agents = << >>
    /\ \E drawn \in [ Cells(width, length) -> MeetDict ] :
          obj = addObject(<< >>, drawn)
    /\ probabilities = DriverProb
    /\ probRelu = DEFAULT_PROB_RELU
    /\ similarityThreshold = 1
    /\ cooldown_duration = 1
    /\ interactionCounter = 0
    /\ NoGhost
    /\ phase = "populated"
    /\ op = "none"
    /\ calls = << >>
    /\ steps = 0
    /\ ub = FALSE

AddGuest == AddAnt(MaxMeetAnts, { 1 }, MeetHeadings)

GuestsWork == AssignWork(MaxMeetAnts, MaxMeetSteps, RandEnds)

GuestsMeet == HandleAntInteractions(MaxMeetAnts, MaxMeetSteps)

NextMeet == AddGuest \/ GuestsWork \/ GuestsMeet

SpecMeet == InitMeet /\ [][NextMeet]_vars

----------------------------------------------------------------------------
(* SpecLife: the driver's loop (moveAnts, assignWork, handleAntInteractions *)
(* in this order) with two agents on a 3x3 ground, the smallest with an     *)
(* interior cell                                                            *)

MaxLifeSteps == 4    \* calls per run

\* what getRandomObject returned for the nine cells: a Food for the interior
\* cell and nothing else, or also a Waste for the corner (0, 0)
LifeDraws ==
    { [ c \in Cells(3, 3) |->
          IF c = << 1, 1 >> THEN "food1"
          ELSE IF c = << 0, 0 >> THEN corner ELSE NULL ] :
      corner \in { "waste1", NULL } }

\* the headings getRandomDirection gives the agents (two samples of 0..7)
LifeHeadings == { 1, 6 }

InitLife ==
    /\ width = 3
    /\ length = 3
    /\ possiblePositions = getPossiblePositions(width, length)
    /\ agents = << >>
    /\ \E drawn \in LifeDraws :
          obj = addObject(<< >>, drawn)
    /\ probabilities = DriverProb
    /\ probRelu = DEFAULT_PROB_RELU
    /\ similarityThreshold = 0
    /\ cooldown_duration \in { 0, MaxCooldown }
    /\ interactionCounter = 0
    /\ NoGhost
    /\ phase = "populated"
    /\ op = "none"
    /\ calls = << >>
    /\ steps = 0
    /\ ub = FALSE

AddLifeAnt == AddAnt(MaxAnts, { 1 }, LifeHeadings)

\* ground.moveAnts() opens an iteration of the loop
LifeMove ==
    /\ op \in { "addAnt", "handleAntInteractions" }
    /\ MoveAnts(MaxAnts, MaxLifeSteps)

\* ground.assignWork() follows moveAnts()
LifeWork ==
    /\ op = "moveAnts"
    /\ AssignWork(MaxAnts, MaxLifeSteps, RandEnds)

\* ground.handleAntInteractions(i) follows assignWork()
LifeMeet ==
    /\ op = "assignWork"
    /\ HandleAntInteractions(MaxAnts, MaxLifeSteps)

NextLife == AddLifeAnt \/ LifeMove \/ LifeWork \/ LifeMeet

SpecLife == InitLife /\ [][NextLife]_vars

----------------------------------------------------------------------------
(* SpecCool: two agents on the strip under every cooldown duration up to    *)
(* MaxCoolDuration; every agent met qualifies (threshold 0)                 *)

MaxCoolDuration == 3 \* cooldown durations 0..MaxCoolDuration
MaxCoolSteps == 5    \* calls per run

\* the keys of the object dictionary
CoolDict == { "food1", NULL }

InitCool ==
    /\ width = 1
    /\ length = 3
    /\ possiblePositions = getPossiblePositions(width, length)
    /\ agents = << >>
    /\ \E drawn \in [ Cells(width, length) -> CoolDict ] :
          obj = addObject(<< >>, drawn)
    /\ probabilities = DriverProb
    /\ probRelu = DEFAULT_PROB_RELU
    /\ similarityThreshold = 0
    /\ cooldown_duration \in 0..MaxCoolDuration
    /\ interactionCounter = 0
    /\ NoGhost
    /\ phase = "populated"
    /\ op = "none"
    /\ calls = << >>
    /\ steps = 0
    /\ ub = FALSE

AddCoolAnt == AddAnt(MaxAnts, { 1 }, Headings)

CoolWork == AssignWork(MaxAnts, MaxCoolSteps, RandEnds)

CoolMeet == HandleAntInteractions(MaxAnts, MaxCoolSteps)

NextCool == AddCoolAnt \/ CoolWork \/ CoolMeet

SpecCool == InitCool /\ [][NextCool]_vars

----------------------------------------------------------------------------
(* SpecSeed: two runs from one initial state whose caller seeds the         *)
(* generator it hands to Ant::move alike. A generator is a counter: a draw  *)
(* returns its state and steps it. A run is a record [agents, obj, gen,     *)
(* weighted, work]: gen is the generator the caller supplies, weighted the  *)
(* function-static one of Ant::getRandomWeightedDirection and work the      *)
(* function-static one of Ground::assignWork, both seeded from              *)
(* std::random_device.                                                      *)

GenPeriod == 2       \* generator states 0..GenPeriod - 1
MaxSeedSteps == 2    \* calls per run

GenStates == 0..(GenPeriod - 1)

advance(s) == (s + 1) % GenPeriod

\* the element of the set S of integers a distribution selects on the
\* generator output k
Pick(S, k) ==
    CHOOSE x \in S : Cardinality({ y \in S : y < x }) = k % Cardinality(S)

\* dist(gen) of assignWork on the generator output k
drawOf(k) == IF k % 2 = 0 THEN << 0, 1 >> ELSE << 11, 12 >>

\* ant.move(possiblePositions, probabilities, gen) for agent i of run r: the
\* weighted branch draws from the static generator, the uniform one from gen
moveSeeded(r, pp, probs, i) ==
    LET ant == r.agents[i] IN
    IF ant.position \notin DOMAIN pp \/ Len(pp[ant.position]) = 0
    THEN r
    ELSE LET nextStepsList == pp[ant.position] IN
         IF Len(nextStepsList) = NUM_DIRECTIONS
         THEN [ r EXCEPT
                  !.agents[i] = interiorStep(ant,
                      Pick(getRandomWeightedDirection(probs, ant.prevDirection),
                           r.weighted)),
                  !.weighted = advance(r.weighted) ]
         ELSE [ r EXCEPT
                  !.agents[i] = boundaryStep(ant,
                      nextStepsList[(r.gen % Len(nextStepsList)) + 1]),
                  !.gen = advance(r.gen) ]

RECURSIVE moveAntsSeeded(_, _, _, _)
moveAntsSeeded(r, pp, probs, i) ==
    IF i > Len(r.agents)
    THEN r
    ELSE moveAntsSeeded(moveSeeded(r, pp, probs, i), pp, probs, i + 1)

\* the loop body of Ground::assignWork for agent i of run r, drawing from the
\* static generator of assignWork
assignSeeded(r, pp, relu, i) ==
    LET w == assignOne([ agents |-> r.agents, obj |-> r.obj, pp |-> pp,
                         rand |-> [ k \in DOMAIN r.agents |-> NoDraw ],
                         ramp |-> [ k \in DOMAIN r.agents |-> NoRamp ] ],
                       i, drawOf(r.work), relu)
    IN [ r EXCEPT !.agents = w.agents,
                  !.obj = w.obj,
                  !.work = IF w.rand[i] = NoDraw THEN r.work ELSE advance(r.work) ]

RECURSIVE assignWorkSeeded(_, _, _, _)
assignWorkSeeded(r, pp, relu, i) ==
    IF i > Len(r.agents)
    THEN r
    ELSE assignWorkSeeded(assignSeeded(r, pp, relu, i), pp, relu, i + 1)

InitSeed ==
    /\ width = 3
    /\ length = 3
    /\ possiblePositions = getPossiblePositions(width, length)
    /\ agents = << >>
    /\ obj = << >>
    /\ probabilities = DriverProb
    /\ probRelu = DEFAULT_PROB_RELU
    /\ similarityThreshold = 0
    /\ cooldown_duration = 0
    /\ interactionCounter = 0
    /\ fired = {}
    /\ rand = << >>
    /\ ret = << 0, 1 >>
    /\ gens = << >>
    /\ ramp = << >>
    /\ sinceFired = << >>
    /\ \E fed \in Cells(width, length), position \in Cells(width, length),
          dir \in Headings, seed \in GenStates,
          hidden \in [ 1..2 -> [ weighted : GenStates, work : GenStates ] ] :
          runs = [ k \in 1..2 |->
                     [ agents |-> << Ant(position, TRUE, 1, dir) >>,
                       obj |-> addObject(<< >>,
                                  [ c \in Cells(width, length) |->
                                      IF c = fed THEN "food1" ELSE NULL ]),
                       gen |-> seed,
                       weighted |-> hidden[k].weighted,
                       work |-> hidden[k].work ] ]
    /\ phase = "running"
    /\ op = "none"
    /\ calls = << >>
    /\ steps = 0
    /\ ub = FALSE

\* both runs call moveAnts
SeededMove ==
    /\ steps < MaxSeedSteps
    /\ runs' = [ k \in DOMAIN runs |->
                   moveAntsSeeded(runs[k], possiblePositions, probabilities, 1) ]
    /\ op' = "moveAnts"
    /\ steps' = steps + 1
    /\ UNCHANGED << width, length, possiblePositions, agents, obj, probabilities,
                    probRelu, similarityThreshold, cooldown_duration,
                    interactionCounter, phase, calls, fired, rand, ret, ub, gens, ramp, sinceFired >>

\* both runs call assignWork
SeededWork ==
    /\ steps < MaxSeedSteps
    /\ runs' = [ k \in DOMAIN runs |->
                   assignWorkSeeded(runs[k], possiblePositions, probRelu, 1) ]
    /\ op' = "assignWork"
    /\ steps' = steps + 1
    /\ UNCHANGED << width, length, possiblePositions, agents, obj, probabilities,
                    probRelu, similarityThreshold, cooldown_duration,
                    interactionCounter, phase, calls, fired, rand, ret, ub, gens, ramp, sinceFired >>

NextSeed == SeededMove \/ SeededWork

SpecSeed == InitSeed /\ [][NextSeed]_vars

----------------------------------------------------------------------------
(* SpecPar: the experiments of the driver's parallel loop, one Ground per   *)
(* thread. runs[t] is thread t's record [pc, iter, agents, obj, gen]: its   *)
(* place in the loop body, its Ground, and the thread_local generator of    *)
(* moveAnts. gens holds the function-static generators, one object each for *)
(* the whole process: [state, users], users being the threads that have     *)
(* drawn from it. Nothing orders the calls of two threads inside the        *)
(* parallel loop, so a draw from a generator another thread has drawn from  *)
(* is a data race; its outcome is undefined and the model stops there.      *)

MaxParIters == 2     \* iterations of the simulation loop per experiment

Threads == 1..2

StaticGenerators == { "object", "direction", "weighted", "work" }

advanceBy(s, n) == (s + n) % GenPeriod

races(g, t) == gens[g].users \ { t } # {}

drawFrom(g, t, n) ==
    [ gens EXCEPT ![g] = [ state |-> advanceBy(@.state, n),
                           users |-> @.users \union { t } ] ]

\* getRandomObject on the generator output k, for a dictionary of a Food and
\* an empty entry
getRandomObject(k) == IF k % 2 = 0 THEN "food1" ELSE NULL

\* the position of cell c in the nested loops of addObject
scanIndex(c, l) == c[1] * l + c[2]

InitPar ==
    /\ width = 3
    /\ length = 3
    /\ possiblePositions = getPossiblePositions(width, length)
    /\ agents = << >>
    /\ obj = << >>
    /\ probabilities = DriverProb
    /\ probRelu = DEFAULT_PROB_RELU
    /\ similarityThreshold = 0
    /\ cooldown_duration = 0
    /\ interactionCounter = 0
    /\ fired = {}
    /\ rand = << >>
    /\ ret = << 0, 1 >>
    /\ ramp = << >>
    /\ sinceFired = << >>
    /\ gens \in [ StaticGenerators -> [ state : GenStates, users : { {} } ] ]
    /\ runs \in [ Threads -> [ pc : { "addObject" }, iter : { 0 },
                               agents : { << >> }, obj : { << >> },
                               gen : GenStates ] ]
    /\ phase = "running"
    /\ op = "none"
    /\ calls = << >>
    /\ steps = 0
    /\ ub = FALSE

ParUnchanged ==
    UNCHANGED << width, length, possiblePositions, agents, obj, probabilities,
                 probRelu, similarityThreshold, cooldown_duration,
                 interactionCounter, phase, calls, fired, rand, ret, steps, ramp, sinceFired >>

\* thread t: ground.addObject(obj_dict), one getRandomObject per cell
ParAddObject(t) ==
    /\ ~ub
    /\ runs[t].pc = "addObject"
    /\ op' = "addObject"
    /\ gens' = drawFrom("object", t, width * length)
    /\ IF races("object", t)
       THEN ub' = TRUE /\ UNCHANGED runs
       ELSE /\ ub' = ub
            /\ runs' = [ runs EXCEPT ![t] = [ @ EXCEPT
                  !.obj = addObject(<< >>,
                      [ c \in Cells(width, length) |->
                          getRandomObject(gens["object"].state
                                          + scanIndex(c, length)) ]),
                  !.pc = "addAnt" ] ]
    /\ ParUnchanged

\* thread t: ground.addAnt(memory_size); the position comes from the
\* thread_local generator of getRandomPosition, the heading from the static
\* one of Ant::getRandomDirection
ParAddAnt(t) ==
    /\ ~ub
    /\ runs[t].pc = "addAnt"
    /\ op' = "addAnt"
    /\ gens' = drawFrom("direction", t, 1)
    /\ IF races("direction", t)
       THEN ub' = TRUE /\ UNCHANGED runs
       ELSE /\ ub' = ub
            /\ \E position \in Cells(width, length) :
                 runs' = [ runs EXCEPT ![t] = [ @ EXCEPT
                   !.agents = Append(@,
                       Ant(position, TRUE, 1,
                           Pick(getRandomDirection, gens["direction"].state))),
                   !.pc = "moveAnts" ] ]
    /\ ParUnchanged

\* thread t: ground.moveAnts(); an ant on an interior cell draws from the
\* static generator of getRandomWeightedDirection
ParMoveAnts(t) ==
    LET r == runs[t]
        interior == { i \in DOMAIN r.agents :
                        Len(possiblePositions[r.agents[i].position])
                          = NUM_DIRECTIONS }
        res == moveAntsSeeded([ agents |-> r.agents, obj |-> r.obj,
                                gen |-> r.gen,
                                weighted |-> gens["weighted"].state,
                                work |-> gens["work"].state ],
                              possiblePositions, probabilities, 1)
    IN /\ ~ub
       /\ r.pc = "moveAnts"
       /\ op' = "moveAnts"
       /\ gens' = IF interior = {} THEN gens
                  ELSE drawFrom("weighted", t, Cardinality(interior))
       /\ IF interior # {} /\ races("weighted", t)
          THEN ub' = TRUE /\ UNCHANGED runs
          ELSE /\ ub' = ub
               /\ runs' = [ runs EXCEPT ![t] = [ @ EXCEPT
                     !.agents = res.agents,
                     !.gen = res.gen,
                     !.pc = "assignWork" ] ]
       /\ ParUnchanged

\* thread t: ground.assignWork(); an ant that can pick up or drop draws from
\* the static generator of assignWork
ParAssignWork(t) ==
    LET r == runs[t]
        res == assignWorkSeeded([ agents |-> r.agents, obj |-> r.obj,
                                  gen |-> r.gen,
                                  weighted |-> gens["weighted"].state,
                                  work |-> gens["work"].state ],
                                possiblePositions, probRelu, 1)
        drew == res.work # gens["work"].state
    IN /\ ~ub
       /\ r.pc = "assignWork"
       /\ op' = "assignWork"
       /\ gens' = IF drew THEN drawFrom("work", t, 1) ELSE gens
       /\ IF drew /\ races("work", t)
          THEN ub' = TRUE /\ UNCHANGED runs
          ELSE /\ ub' = ub
               /\ runs' = [ runs EXCEPT ![t] = [ @ EXCEPT
                     !.agents = res.agents,
                     !.obj = res.obj,
                     !.iter = @ + 1,
                     !.pc = IF r.iter + 1 < MaxParIters
                            THEN "moveAnts" ELSE "done" ] ]
       /\ ParUnchanged

NextPar ==
    \E t \in Threads :
        \/ ParAddObject(t)
        \/ ParAddAnt(t)
        \/ ParMoveAnts(t)
        \/ ParAssignWork(t)

SpecPar == InitPar /\ [][NextPar]_vars

----------------------------------------------------------------------------
(* Claims about the random draws (SpecSeed) *)

\* C19: two runs started from the same state, with the generator supplied by
\* the caller in the same state, go through the same states.
C19_SameSeedSameRun ==
    /\ runs[1].agents = runs[2].agents
    /\ runs[1].obj = runs[2].obj
    /\ runs[1].gen = runs[2].gen

----------------------------------------------------------------------------
(* Claims about parallel runs (SpecPar) *)

\* C20: the Grounds of two threads share no mutable state: no generator is
\* drawn from by more than one thread, and no call is a data race.
C20_NoSharedMutableState ==
    /\ \A g \in StaticGenerators : Cardinality(gens[g].users) <= 1
    /\ ~ub

----------------------------------------------------------------------------
(* Claims about the topology (SpecTopo) *)

Abs(n) == IF n < 0 THEN -n ELSE n

\* The cells at distance one of c (a king's move away) that lie in the grid.
Adjacent(c, w, l) ==
    { d \in Cells(w, l) : d # c /\ Abs(d[1] - c[1]) <= 1 /\ Abs(d[2] - c[2]) <= 1 }

OnBorder(c, w, l) == c[1] = 0 \/ c[1] = w - 1 \/ c[2] = 0 \/ c[2] = l - 1

\* C10: for every grid size the constructor accepts, the topology has an entry
\* for every cell; a cell's neighbor list holds exactly the in-grid cells one
\* unit offset away, each once and never the cell itself; a cell on no border
\* has exactly 8 neighbors.
C10_NeighborListsAreTheInGridOffsets ==
    phase = "ready" =>
        /\ DOMAIN possiblePositions = Cells(width, length)
        /\ \A c \in Cells(width, length) :
              LET list == possiblePositions[c] IN
              /\ Range(list) = Adjacent(c, width, length)
              /\ Cardinality(Range(list)) = Len(list)
              /\ c \notin Range(list)
              /\ (~OnBorder(c, width, length) => Len(list) = NUM_DIRECTIONS)

C10_Witness ==
    /\ phase = "ready"
    /\ width = 3
    /\ length = 4
    /\ Len(possiblePositions[<< 1, 2 >>]) = NUM_DIRECTIONS
    /\ Len(possiblePositions[<< 0, 0 >>]) = 3

IsCorner(c, w, l) == c[1] \in { 0, w - 1 } /\ c[2] \in { 0, l - 1 }

\* C11 as stated: on every grid the constructor accepts, a corner cell has
\* exactly 3 neighbors and a border cell that is no corner has exactly 5.
C11_CornersHave3EdgesHave5 ==
    phase = "ready" =>
        \A c \in Cells(width, length) :
            /\ IsCorner(c, width, length) => Len(possiblePositions[c]) = 3
            /\ (OnBorder(c, width, length) /\ ~IsCorner(c, width, length)) =>
                   Len(possiblePositions[c]) = 5

\* C11 amended: the counts 3 and 5 hold on the grids whose sides are both at
\* least 2; with a side of 1 a cell has at most 2 neighbors (none on 1 x 1).
C11_CornersHave3EdgesHave5OnWideGrids ==
    phase = "ready" =>
        /\ (width >= 2 /\ length >= 2) => C11_CornersHave3EdgesHave5
        /\ (width = 1 \/ length = 1) =>
               \A c \in Cells(width, length) :
                   Len(possiblePositions[c]) =
                       Cardinality(Adjacent(c, width, length))
                   /\ Len(possiblePositions[c]) <= 2

C11_Witness ==
    /\ phase = "ready"
    /\ width = 2
    /\ length = 5
    /\ Len(possiblePositions[<< 1, 4 >>]) = 3
    /\ Len(possiblePositions[<< 0, 2 >>]) = 5

\* C14: the constructor fails, leaving no Ground, exactly when width <= 0 or
\* length <= 0; otherwise it succeeds with a non-empty topology of exactly
\* width * length cells.
C14_ConstructorFailsFast ==
    /\ phase = "threw" => /\ (width <= 0 \/ length <= 0)
                          /\ possiblePositions = << >>
    /\ phase = "ready" => /\ (width >= 1 /\ length >= 1)
                          /\ DOMAIN possiblePositions # {}
                          /\ Cardinality(DOMAIN possiblePositions) = width * length
    /\ op = "Ground" => phase \in { "threw", "ready" }

C14_Witness ==
    /\ op = "Ground"
    /\ phase = "threw"
    /\ width = 0
    /\ length = 3

----------------------------------------------------------------------------
(* Claims about the agent's memory (SpecMem) *)

IsCategoryObject(o) == o # NULL /\ ClassOf(o) \in { "Food", "Waste", "Egg" }

CategoryCode(o) ==
    CASE ClassOf(o) = "Food"  -> 1
      [] ClassOf(o) = "Waste" -> 2
      [] ClassOf(o) = "Egg"   -> 3

\* C2: whatever the capacity M >= 0 and the calls made, an agent's memory never
\* holds more than M codes.
C2_MemoryNeverExceedsCapacity ==
    \A i \in DOMAIN agents : Len(agents[i].memory) <= agents[i].memorySize

\* C3: with capacity M >= 1, after n updateMemory calls that each pass a Food,
\* Waste or Egg object, the memory is the codes of the last min(n, M) calls in
\* call order.
C3_MemoryIsFifoOfLastCodes ==
    \A i \in DOMAIN agents :
        ( /\ agents[i].memorySize >= 1
          /\ \A k \in DOMAIN calls : IsCategoryObject(calls[k]) )
        => agents[i].memory =
              LastN([ k \in DOMAIN calls |-> CategoryCode(calls[k]) ],
                    Min(Len(calls), agents[i].memorySize))

C3_Witness ==
    /\ calls = << "food1", "waste1", "egg1", "food2" >>
    /\ agents[1].memorySize = 3
    /\ agents[1].memory = << 2, 3, 1 >>

\* C4: updateMemory(nullptr) changes nothing of the agent, and the code 0
\* (None) is never stored in a memory.
C4_NullObjectIsIgnored ==
    /\ [][ (op' = "updateMemory" /\ calls' = Append(calls, NULL))
             => agents' = agents ]_vars
    /\ [](\A i \in DOMAIN agents : None \notin Range(agents[i].memory))

C4_Witness ==
    /\ op = "updateMemory"
    /\ Len(calls) >= 2
    /\ calls[Len(calls)] = NULL
    /\ agents[1].memory = << 1 >>
    /\ "object1" \in Range(calls)

----------------------------------------------------------------------------
(* Claims about movement (SpecMove) *)

InGrid(pos) == pos \in Cells(width, length)

\* C1: a single move from a cell whose neighbor list is non-empty leaves the
\* agent on a cell of that list, in the weighted branch of interior cells and
\* in the uniform branch of border cells alike; hence, as long as no agent has
\* moved from a cell without neighbors, every agent stands inside
\* [0, width) x [0, length).
C1_MoveLandsOnANeighbor ==
    /\ [][op' = "moveAnts" =>
            \A i \in DOMAIN agents :
                possiblePositions[agents[i].position] # << >> =>
                    agents'[i].position \in
                        Range(possiblePositions[agents[i].position])]_vars
    /\ [](~ub => \A i \in DOMAIN agents : InGrid(agents[i].position))

\* a walk on the 3 x 3 grid that entered the interior cell by the uniform
\* branch and left it for a corner by the weighted branch
C1_Witness ==
    /\ width = 3 /\ length = 3
    /\ op = "moveAnts" /\ steps = 2
    /\ agents[1].visitedPositions = { << 1, 1 >>, << 0, 0 >> }
    /\ agents[1].position = << 0, 0 >>
    /\ agents[1].prevDirection = 7

----------------------------------------------------------------------------
(* Claims about interactions (Spec) *)

\* agent b stands on a cell of the neighbor list of agent a's cell
InNeighborCell(a, b) ==
    agents[b].position \in Range(possiblePositions[agents[a].position])

\* the occurrences of a's carried category code in b's memory
Similarity(a, b) == Count(agents[b].memory, CategoryCode(agents[a].load))

CanFire(a) ==
    /\ agents[a].interactionCooldown = 0
    /\ agents[a].load # NULL
    /\ \E b \in DOMAIN agents :
          InNeighborCell(a, b) /\ Similarity(a, b) >= similarityThreshold

\* C5: in one handleAntInteractions call agent A fires if and only if its
\* cooldown is 0 at the start of the call, it carries an object, and some agent
\* in one of its neighbor cells has similarity >= similarityThreshold.
C5_FiresIffEligible ==
    [][op' = "handleAntInteractions" =>
          \A a \in DOMAIN agents : (a \in fired') <=> CanFire(a)]_vars

\* agent 1 fired on similarity 2 = threshold against an unloaded agent 2
C5_Witness ==
    /\ op = "handleAntInteractions"
    /\ similarityThreshold = 2
    /\ fired = { 1 }
    /\ agents[1].load # NULL
    /\ agents[2].load = NULL
    /\ InNeighborCell(1, 2)
    /\ Similarity(1, 2) = 2

\* C17: with similarityThreshold = 0 every agent that carries an object, has
\* cooldown 0 and has another agent in one of its neighbor cells fires in the
\* call, whatever that agent's memory holds, nothing included.
C17_ThresholdZeroAlwaysFires ==
    [][(op' = "handleAntInteractions" /\ similarityThreshold = 0) =>
          \A a \in DOMAIN agents :
              ( /\ agents[a].load # NULL
                /\ agents[a].interactionCooldown = 0
                /\ \E b \in DOMAIN agents \ { a } : InNeighborCell(a, b) )
              => a \in fired']_vars

\* agent 1 fired beside an agent 2 that has seen nothing yet
C17_Witness ==
    /\ op = "handleAntInteractions"
    /\ similarityThreshold = 0
    /\ fired = { 1 }
    /\ agents[2].memory = << >>
    /\ InNeighborCell(1, 2)
    /\ interactionCounter = 1

\* C6: after the call in which agent A fires, A's cooldown equals
\* cooldown_duration exactly.
C6_CooldownIsDurationAfterFiring ==
    [][op' = "handleAntInteractions" =>
          \A a \in fired' :
              agents'[a].interactionCooldown = cooldown_duration]_vars

\* C7: cooldowns are never negative; in each handleAntInteractions call an
\* agent that starts with cooldown c > 0 does not fire and ends with c - 1, and
\* an agent with cooldown 0 that does not fire stays at 0.
C7_CooldownCountsDown ==
    /\ [](\A a \in DOMAIN agents : agents[a].interactionCooldown >= 0)
    /\ [][op' = "handleAntInteractions" =>
            \A a \in DOMAIN agents :
                LET c == agents[a].interactionCooldown IN
                /\ c > 0 => /\ a \notin fired'
                            /\ agents'[a].interactionCooldown = c - 1
                /\ (c = 0 /\ a \notin fired') =>
                       agents'[a].interactionCooldown = 0]_vars

\* agent 1 fired in one call and, still loaded beside a partner of sufficient
\* similarity, sat out the next call while its cooldown ran from 1 to 0
C7_Witness ==
    /\ op = "handleAntInteractions"
    /\ cooldown_duration = 2
    /\ interactionCounter = 1
    /\ fired = {}
    /\ agents[1].interactionCooldown = 0
    /\ agents[1].load # NULL
    /\ agents[2].load = NULL
    /\ InNeighborCell(1, 2)
    /\ Similarity(1, 2) >= similarityThreshold

\* C27: Phase A writes only the acting agent's own cooldown and prevDirection
\* and the interaction counter: positions, memories, loads and the ground are
\* as they were, an agent that did not fire keeps its prevDirection and has
\* its cooldown touched by Phase B alone; and since Phase B runs after all of
\* Phase A, an agent fires exactly when it was eligible on the cooldowns, loads
\* and memories the call started from.
C27_PhaseAWritesOnlyTheActingAgent ==
    [][op' = "handleAntInteractions" =>
          /\ DOMAIN agents' = DOMAIN agents
          /\ \A c \in Cells(width, length) : ObjAt(obj', c) = ObjAt(obj, c)
          /\ \A a \in DOMAIN agents :
                /\ agents'[a].position = agents[a].position
                /\ agents'[a].memory = agents[a].memory
                /\ agents'[a].load = agents[a].load
                /\ a \notin fired' =>
                      /\ agents'[a].prevDirection = agents[a].prevDirection
                      /\ agents'[a].interactionCooldown \in
                            { agents[a].interactionCooldown,
                              agents[a].interactionCooldown - 1 }
                /\ a \in fired' =>
                      /\ agents[a].interactionCooldown = 0
                      /\ CanFire(a)
                /\ (agents[a].interactionCooldown # 0) => a \notin fired']_vars

\* agent 1 fired against agent 2, which keeps its heading, its memory, its
\* empty slot and its cooldown of 0
C27_Witness ==
    /\ op = "handleAntInteractions"
    /\ fired = { 1 }
    /\ interactionCounter = 1
    /\ agents[1].prevDirection = 2
    /\ agents[2].prevDirection = 6
    /\ agents[2].interactionCooldown = 0
    /\ agents[2].load = NULL
    /\ agents[2].memory # << >>

\* the agents a can fire against: those in its neighbor cells whose memory
\* meets the threshold
Qualifying(a) ==
    { b \in DOMAIN agents :
        InNeighborCell(a, b) /\ Similarity(a, b) >= similarityThreshold }

\* C28: an agent A that fires against B ends with the reversal (d + 4) mod 8
\* of d, B's prevDirection as it stood when the call began, also when B has a
\* lower index than A and has fired itself earlier in the call.
C28_ReversesThePartnersHeading ==
    [][op' = "handleAntInteractions" =>
          \A a \in fired' :
              \E b \in Qualifying(a) :
                  agents'[a].prevDirection =
                      (agents[b].prevDirection + 4) % NUM_DIRECTIONS]_vars

\* N, NE, E, SE, S, SW, W, NW
Compass ==
    << << 0, -1 >>, << 1, -1 >>, << 1, 0 >>, << 1, 1 >>,
       << 0, 1 >>, << -1, 1 >>, << -1, 0 >>, << -1, -1 >> >>

\* the place in the compass order of the cell b stands on, seen from a
CompassIndex(a, b) ==
    CHOOSE k \in DOMAIN Compass :
        agents[b].position =
            << agents[a].position[1] + Compass[k][1],
               agents[a].position[2] + Compass[k][2] >>

\* b comes no later than c in a's scan: cells in compass order, the agents of
\* one cell by index
ScannedBefore(a, b, c) ==
    \/ CompassIndex(a, b) < CompassIndex(a, c)
    \/ CompassIndex(a, b) = CompassIndex(a, c) /\ b <= c

FirstQualifying(a) ==
    CHOOSE b \in Qualifying(a) : \A c \in Qualifying(a) : ScannedBefore(a, b, c)

\* C29: an agent A with several qualifying agents in its neighbor cells
\* interacts with exactly one of them, the first in the order of its neighbor
\* cells (N, NE, E, SE, S, SW, W, NW, cells outside the grid left out) and, in
\* one cell, by index: A takes the reversal of the heading that agent has at
\* that moment, and the counter grows by one per acting agent.
C29_FirstQualifyingPartnerWins ==
    [][op' = "handleAntInteractions" =>
          /\ interactionCounter' = interactionCounter + Cardinality(fired')
          /\ \A a \in fired' :
                LET b == FirstQualifying(a)
                    d == IF b < a THEN agents'[b].prevDirection
                                  ELSE agents[b].prevDirection
                IN agents'[a].prevDirection = (d + 4) % NUM_DIRECTIONS]_vars

\* agent 1 had agents 2 and 3, of different headings, to choose from on one
\* cell and took agent 2
C29_Witness ==
    /\ op = "handleAntInteractions"
    /\ Len(agents) = 3
    /\ fired = { 1 }
    /\ Qualifying(1) = { 2, 3 }
    /\ agents[2].position = agents[3].position
    /\ agents[2].prevDirection = 6
    /\ agents[3].prevDirection = 1
    /\ agents[1].prevDirection = 2

----------------------------------------------------------------------------
(* Claims about the move from a border cell (SpecMove) *)

----------------------------------------------------------------------------
(* Claims about whole runs (SpecRun) *)

\* C15: on every grid the constructor accepts no operation is undefined: no
\* move indexes an empty neighbor list, and no agent of assignWork divides its
\* neighbor count by a neighbor-list size of zero.
C15_OperationsAreDefined ==
    /\ ~ub
    /\ op = "assignWork" =>
          \A a \in DOMAIN agents :
              rand[a] # NoDraw =>
                  Len(possiblePositions[agents[a].position]) > 0

\* C16: a handleAntInteractions call raises the interaction counter by exactly
\* the number of agents that fired in it, each agent firing at most once;
\* moveAnts, assignWork and averageClusterSize leave the counter alone, and it
\* never decreases.
C16_CounterCountsFirings ==
    [][/\ op' = "handleAntInteractions" =>
             /\ fired' \subseteq DOMAIN agents
             /\ interactionCounter' = interactionCounter + Cardinality(fired')
       /\ op' \in { "moveAnts", "assignWork", "averageClusterSize" } =>
             interactionCounter' = interactionCounter
       /\ interactionCounter' >= interactionCounter]_vars

\* both agents fired in one call and the counter went from 0 to 2
C16_Witness ==
    /\ op = "handleAntInteractions"
    /\ fired = { 1, 2 }
    /\ interactionCounter = 2

\* the occupant of every cell of the grid
Occupancy(o) == [ c \in Cells(width, length) |-> ObjAt(o, c) ]

\* C21: averageClusterSize is a read-only measurement: a call leaves the
\* occupancy of the ground, the topology, every agent and the interaction
\* counter as they were, and a call that directly follows another returns the
\* same value.
C21_MeasurementIsReadOnly ==
    [][op' = "averageClusterSize" =>
          /\ Occupancy(obj') = Occupancy(obj)
          /\ possiblePositions' = possiblePositions
          /\ width' = width /\ length' = length
          /\ agents' = agents
          /\ interactionCounter' = interactionCounter
          /\ (op = "averageClusterSize" => ret' = ret)]_vars

\* a measurement of a ground with a cluster, a loaded agent and an
\* interaction behind it
C21_Witness ==
    /\ op = "averageClusterSize"
    /\ ret[1] > 0
    /\ interactionCounter > 0
    /\ \E i \in DOMAIN agents : agents[i].load # NULL /\ agents[i].memory # << >>

----------------------------------------------------------------------------
(* Claims about assignWork (SpecWork: the colony is one agent, so the state *)
(* before the call is the state the agent's turn starts from)               *)

RatLess(p, q) == p[1] * q[2] < q[1] * p[2]

\* the clamped linear ramp: 0 below a, 1 above b, linear in between
Ramp(x, a, b) ==
    IF RatLess(x, a) THEN << 0, 1 >>
    ELSE IF RatLess(b, x) THEN << 1, 1 >>
    ELSE << (x[1] * a[2] - a[1] * x[2]) * b[2],
            (b[1] * a[2] - a[1] * b[2]) * x[2] >>

\* the probability of the agent's turn: the ramp of the density it computed
Probability(i) == Ramp(ramp[i].density, probRelu[1], probRelu[2])

\* every cell but pos holds what it held
OthersKept(pos) ==
    \A c \in Cells(width, length) \ { pos } : ObjAt(obj', c) = ObjAt(obj, c)

\* C22: an agent that carries nothing and stands on an occupied cell picks the
\* object up if and only if its draw is strictly greater than the ramp of the
\* density; on pick-up the cell becomes empty and the agent carries exactly
\* the former occupant, otherwise cell and slot are unchanged. On an empty
\* cell an agent that carries nothing changes nothing.
C22_PickUpIffDrawExceeds ==
    [][(op' = "assignWork" /\ agents[1].load = NULL) =>
          LET pos == agents[1].position
              ground == ObjAt(obj, pos)
          IN IF ground = NULL
             THEN agents' = agents /\ Occupancy(obj') = Occupancy(obj)
             ELSE LET picks == /\ rand'[1] # NoDraw
                               /\ ramp'[1].density # NaN
                               /\ RatLess(Probability(1)', rand'[1])
                  IN /\ picks => /\ ObjAt(obj', pos) = NULL
                                 /\ agents'[1].load = ground
                     /\ ~picks => /\ ObjAt(obj', pos) = ground
                                  /\ agents'[1].load = NULL
                     /\ OthersKept(pos)
                     /\ agents'[1].position = pos]_vars

\* a pick-up on a draw of 11/12 against a probability of 1/12
C22_Witness ==
    /\ op = "assignWork"
    /\ steps = 1
    /\ agents[1].load # NULL
    /\ ObjAt(obj, agents[1].position) = NULL
    /\ ramp[1].density = << 1, 3 >>
    /\ rand[1] = << 11, 12 >>

\* C23: an agent that carries an object acts if and only if its draw is at
\* most the ramp of the density of the carried object: on an empty cell the
\* carried object becomes the occupant and the slot empties, on an occupied
\* cell cell and slot exchange their objects. Whatever the agent carried, its
\* turn is at most one of pick-up, drop and swap.
C23_DropOrSwapIffDrawAtMost ==
    [][op' = "assignWork" =>
          LET pos == agents[1].position
              ground == ObjAt(obj, pos)
              carried == agents[1].load
              after == << ObjAt(obj', pos), agents'[1].load >>
              acts == /\ rand'[1] # NoDraw
                      /\ ramp'[1].density # NaN
                      /\ ~RatLess(Probability(1)', rand'[1])
          IN /\ carried # NULL =>
                   /\ acts => after = << carried, ground >>
                   /\ ~acts => after = << ground, carried >>
                   /\ OthersKept(pos)
                   /\ agents'[1].position = pos
             /\ after \in { << ground, carried >>, << NULL, ground >>,
                            << carried, ground >> }]_vars

\* a swap: the agent came with the Food and leaves with the Waste it found
C23_Witness ==
    /\ op = "assignWork"
    /\ agents[1].load = "waste1"
    /\ ObjAt(obj, agents[1].position) = "food1"
    /\ agents[1].memory = << Waste, Food, Food, Waste >>

\* the legal neighbors of pos whose occupant has the category of o
SameCategoryNeighbors(pos, o) ==
    { c \in Cells(width, length) :
        /\ c # pos
        /\ c[1] - pos[1] \in { -1, 0, 1 }
        /\ c[2] - pos[2] \in { -1, 0, 1 }
        /\ ObjAt(obj, c) # NULL
        /\ ClassOf(ObjAt(obj, c)) = ClassOf(o) }

LegalNeighbors(pos) ==
    { c \in Cells(width, length) :
        /\ c # pos
        /\ c[1] - pos[1] \in { -1, 0, 1 }
        /\ c[2] - pos[2] \in { -1, 0, 1 } }

\* C24: the density behind the pick-up and drop probabilities is the number of
\* legal neighbors whose occupant has the category of the object in question
\* (the ground object when picking, the carried one when dropping), whichever
\* instance of the category it is, over the number of legal neighbors.
C24_DensityCountsTheCategory ==
    [][(op' = "assignWork" /\ rand'[1] # NoDraw) =>
          LET pos == agents[1].position
              o == IF agents[1].load = NULL THEN ObjAt(obj, pos)
                                            ELSE agents[1].load
          IN ramp'[1].density =
                << Cardinality(SameCategoryNeighbors(pos, o)),
                   Cardinality(LegalNeighbors(pos)) >>]_vars

\* the category codes of the objects of a sequence, empty slots left out
Codes(objects) ==
    LET present == SelectSeq(objects, LAMBDA o : o # NULL)
    IN [ k \in DOMAIN present |-> CategoryCode(present[k]) ]

\* the n newest entries of s
Newest(s, n) == IF Len(s) <= n THEN s ELSE SubSeq(s, Len(s) - n + 1, Len(s))

\* C26: in one call the agent's memory receives, in this order: the category
\* of the occupant of its cell (nothing from an empty cell); then, if it
\* carried nothing and picks up, that category once more; if it carried an
\* object, the carried category, and after that on a drop onto an empty cell
\* the carried category again, on a swap the formerly carried category and
\* then that of the former occupant. Nothing else is inserted.
C26_MemoryInsertionsInOrder ==
    [][op' = "assignWork" =>
          LET pos == agents[1].position
              ground == ObjAt(obj, pos)
              carried == agents[1].load
              acts == /\ rand'[1] # NoDraw
                      /\ ramp'[1].prob # NaN
                      /\ ~RatLess(ramp'[1].prob, rand'[1])
              inserted ==
                  IF carried = NULL
                  THEN IF agents'[1].load # NULL THEN << ground, ground >>
                                                ELSE << ground >>
                  ELSE IF ~acts THEN << ground, carried >>
                  ELSE IF ground = NULL THEN << carried, carried >>
                  ELSE << ground, carried, carried, ground >>
          IN agents'[1].memory =
                Newest(agents[1].memory \o Codes(inserted),
                       agents[1].memorySize)]_vars

\* a swap, whose four insertions fill the memory: the Waste found, the Food
\* carried, the Food put down, the Waste taken
C26_Witness ==
    /\ op = "assignWork"
    /\ steps = MaxWorkSteps
    /\ agents[1].load = "waste1"
    /\ ObjAt(obj, agents[1].position) = "food2"
    /\ agents[1].memory = << Waste, Food, Food, Waste >>
    /\ ramp[1].name = "dropProb"
    /\ ~RatLess(ramp[1].prob, rand[1])

----------------------------------------------------------------------------
(* Claims about the ramp (Spec: two agents on the strip) *)

\* the densities of cells with 2, 3, 5 and 8 neighbors
Densities ==
    { << 0, 1 >>, << 1, 8 >>, << 1, 5 >>, << 1, 4 >>, << 1, 3 >>, << 3, 8 >>,
      << 2, 5 >>, << 1, 2 >>, << 3, 5 >>, << 5, 8 >>, << 2, 3 >>, << 3, 4 >>,
      << 4, 5 >>, << 7, 8 >>, << 1, 1 >> }

\* ranges << a, b >> with a < b
ReluTables ==
    { DEFAULT_PROB_RELU,
      << << 1, 2 >>, << 3, 4 >> >> }

\* no agent with a higher index stands on agent i's cell
LastOnItsCell(i) ==
    \A j \in DOMAIN agents : j > i => agents[j].position # agents[i].position

\* no agent with a lower index stands on agent i's cell
FirstOnItsCell(i) ==
    \A j \in DOMAIN agents : j < i => agents[j].position # agents[i].position

\* C25: with a < b and draws in [0,1), a density of at least b makes the
\* probability 1, so an agent that carries nothing does not pick up and an
\* agent that carries an object drops or swaps it; and the value of reluRange
\* lies within [0,1] and does not decrease as the density grows.
C25_RampIsClampedAndMonotone ==
    [][op' = "assignWork" =>
          \A i \in DOMAIN agents :
              (rand'[i] # NoDraw /\ ramp'[i].density # NaN) =>
                  LET x == ramp'[i].density
                      pos == agents[i].position
                  IN /\ ~RatLess(x, probRelu[2]) =>
                           /\ ramp'[i].prob[1] = ramp'[i].prob[2]
                           /\ agents[i].load = NULL => agents'[i].load = NULL
                           /\ (agents[i].load # NULL /\ LastOnItsCell(i)) =>
                                  ObjAt(obj', pos) = agents[i].load
                           /\ (agents[i].load # NULL /\ FirstOnItsCell(i)) =>
                                  agents'[i].load = ObjAt(obj, pos)
                     /\ \A t \in ReluTables :
                           LET p == reluRange(x, t[1], t[2]) IN
                           /\ ~RatLess(p, << 0, 1 >>)
                           /\ ~RatLess(<< 1, 1 >>, p)
                           /\ \A y \in Densities :
                                 LET q == reluRange(y, t[1], t[2]) IN
                                 /\ ~RatLess(q, << 0, 1 >>)
                                 /\ ~RatLess(<< 1, 1 >>, q)
                                 /\ ~RatLess(y, x) => ~RatLess(q, p)
                                 /\ ~RatLess(x, y) => ~RatLess(p, q)]_vars

\* the second agent came loaded to a cell whose only neighbor holds the same
\* Food, drew 11/12 against a probability of 1 and dropped
C25_Witness ==
    /\ op = "assignWork"
    /\ Len(agents) = 2
    /\ << 11, 12 >> = rand[2]
    /\ << 1, 1 >> = ramp[2].density
    /\ ramp[2].name = "dropProb"
    /\ agents[2].load = NULL
    /\ agents[2].memory # << >>
    /\ agents[1].position # agents[2].position
    /\ ObjAt(obj, agents[2].position) = "food1"
    /\ steps >= 2

----------------------------------------------------------------------------
(* Claims about objects on the ground and in the agents' slots *)

\* the cells whose occupant is the very instance o
CellsHolding(o) == { c \in DOMAIN obj : obj[c] = o }

\* C12: the object instance an agent carries is at no time the occupant of a
\* ground cell.
C12_CarriedIsNotOnTheGround ==
    \A a \in DOMAIN agents :
        agents[a].load # NULL => CellsHolding(agents[a].load) = {}

Categories == { "Food", "Waste", "Egg" }

SimulationOps == { "moveAnts", "assignWork", "handleAntInteractions" }

\* the ground cells occupied by category cls plus the agents carrying it
Census(o, as, cls) ==
    Cardinality({ c \in DOMAIN o : o[c] # NULL /\ ClassOf(o[c]) = cls })
    + Cardinality({ a \in DOMAIN as :
                      as[a].load # NULL /\ ClassOf(as[a].load) = cls })

\* C13: every moveAnts, assignWork and handleAntInteractions call leaves, for
\* each category, the number of cells it occupies plus the number of agents
\* carrying it as it was, and leaves the number of agents as it was; so both
\* stay what they were at the end of setup.
C13_ObjectsAreConserved ==
    [][op' \in SimulationOps =>
          /\ Len(agents') = Len(agents)
          /\ \A cls \in Categories :
                Census(obj', agents', cls) = Census(obj, agents, cls)]_vars

\* two agents on one cell: the first took the object, the second found the
\* cell empty
C13_Witness ==
    /\ op = "assignWork"
    /\ Len(agents) = 2
    /\ agents[1].position = agents[2].position
    /\ agents[1].load # NULL
    /\ agents[2].load = NULL
    /\ ObjAt(obj, agents[1].position) = NULL
    /\ Census(obj, agents, ClassOf(agents[1].load)) = 1

----------------------------------------------------------------------------
(* Claims about the cluster metric (SpecCluster) *)

\* The cells holding a Food, Waste or Egg object.
Occupied == { c \in Cells(width, length) :
                 ObjAt(obj, c) # NULL /\ IsCategoryObject(ObjAt(obj, c)) }

\* The cells connected to the cells of S through adjacent cells holding the
\* object reference o.
RECURSIVE Connected(_, _)
Connected(S, o) ==
    LET more == { d \in Cells(width, length) :
                     /\ ObjAt(obj, d) = o
                     /\ \E c \in S : d \in Adjacent(c, width, length) }
    IN IF more \subseteq S THEN S ELSE Connected(S \cup more, o)

\* The maximal connected same-reference sets of occupied cells.
Components == { Connected({ c }, obj[c]) : c \in Occupied }

RatEq(p, q) == p[1] * q[2] = q[1] * p[2]
RatLeq(p, q) == p[1] * q[2] <= q[1] * p[2]

\* C8: the value returned is the mean size of the maximal connected
\* same-reference sets of occupied cells, every occupied cell counted in exactly
\* one of them (0 when there is none).
C8_MeanOverAllComponents ==
    op = "averageClusterSize" =>
        IF Occupied = {}
        THEN RatEq(ret, << 0, 1 >>)
        ELSE RatEq(ret, << Cardinality(Occupied), Cardinality(Components) >>)

\* C9: the value returned is 0 exactly when no cell is occupied, 1 when one
\* cell is occupied, 2 when the only two occupied cells are adjacent and hold
\* the same reference, and at least 1 whenever a cell is occupied.
C9_SmallGrounds ==
    op = "averageClusterSize" =>
        /\ (RatEq(ret, << 0, 1 >>) <=> Occupied = {})
        /\ (Cardinality(Occupied) = 1 => RatEq(ret, << 1, 1 >>))
        /\ \A c, d \in Occupied :
              ( /\ Occupied = { c, d }
                /\ d \in Adjacent(c, width, length)
                /\ obj[c] = obj[d] )
              => RatEq(ret, << 2, 1 >>)
        /\ (Occupied # {} => RatLeq(<< 1, 1 >>, ret))

C9_Witness ==
    /\ op = "averageClusterSize"
    /\ width = 2
    /\ length = 2
    /\ Occupied = { << 0, 1 >>, << 1, 0 >> }
    /\ obj[<< 0, 1 >>] = "food1"
    /\ obj[<< 1, 0 >>] = "food1"
    /\ ret = << 2, 1 >>

----------------------------------------------------------------------------
(* Claims about the loop of the driver (SpecLife) *)

\* C31: in every reachable state every agent's prevDirection is an integer of
\* 0 .. 7: when the agent is constructed, after each of its moves from an
\* interior or a border cell under an 8-entry probability table, and after
\* each interaction it fired.
C31_HeadingIsADirection ==
    \A i \in DOMAIN agents :
        agents[i].prevDirection \in 0..(NUM_DIRECTIONS - 1)

\* an agent that fired an interaction and then left the interior cell by the
\* weighted branch
C31_Witness ==
    /\ op = "moveAnts"
    /\ steps = 4
    /\ \E i \in fired :
          /\ agents[i].visitedPositions = { << 1, 1 >>, << 0, 2 >> }
          /\ agents[i].position = << 0, 2 >>
          /\ agents[i].prevDirection = 5

----------------------------------------------------------------------------
(* Claims about the order of the neighbor lists (SpecMove) *)

\* the displacement that leads from cell c to cell d
Offset(c, d) == << d[1] - c[1], d[2] - c[2] >>

\* the place of a displacement in N, NE, E, SE, S, SW, W, NW
CompassPlace(off) == CHOOSE k \in DOMAIN Compass : Compass[k] = off

\* C32: the neighbor list of every cell holds the cells of the grid around it
\* in the order N, NE, E, SE, S, SW, W, NW; for a cell with 8 neighbors the
\* neighbor at index i is the cell plus the displacement of direction i in the
\* agent's direction table, and a move from such a cell that ends with
\* heading i ends on the neighbor at index i.
C32_NeighborOrderIsTheDirectionTable ==
    /\ [](\A c \in Cells(width, length) :
            LET list == possiblePositions[c] IN
            /\ \A j \in DOMAIN list : Offset(c, list[j]) \in Range(Compass)
            /\ \A j, k \in DOMAIN list :
                  j < k => CompassPlace(Offset(c, list[j]))
                             < CompassPlace(Offset(c, list[k]))
            /\ \A k \in DOMAIN Compass :
                  LET d == << c[1] + Compass[k][1], c[2] + Compass[k][2] >>
                  IN InGrid(d) => d \in Range(list)
            /\ Len(list) = NUM_DIRECTIONS =>
                  \A i \in 0..(NUM_DIRECTIONS - 1) :
                      list[i + 1] = << c[1] + movementDict[i][1],
                                      c[2] + movementDict[i][2] >>)
    /\ [][op' = "moveAnts" =>
            \A i \in DOMAIN agents :
                LET list == possiblePositions[agents[i].position] IN
                Len(list) = NUM_DIRECTIONS =>
                    agents'[i].position = list[agents'[i].prevDirection + 1]]_vars

\* a first move from the interior cell of the 3 x 3 grid to SouthEast, which
\* ends on the fourth cell of its neighbor list
C32_Witness ==
    /\ width = 3 /\ length = 3
    /\ op = "moveAnts" /\ steps = 1
    /\ agents[1].position = << 2, 2 >>
    /\ agents[1].prevDirection = 3
    /\ possiblePositions[<< 1, 1 >>][4] = << 2, 2 >>

----------------------------------------------------------------------------
(* Claims about what each stage of the loop writes (SpecLife) *)

\* C33: moveAnts writes nothing but the agents' positions, headings and
\* visited sets: the ground's objects, every load (a carried object goes with
\* its agent), memory and cooldown and the interaction counter stay as they
\* were.  assignWork writes nothing but the ground's objects and the agents'
\* loads and memories: positions, headings, visited sets, cooldowns and the
\* counter stay.  No call changes the topology built by the constructor.
C33_StagesWriteTheirOwnPart ==
    [][/\ op' = "moveAnts" =>
            /\ obj' = obj
            /\ interactionCounter' = interactionCounter
            /\ DOMAIN agents' = DOMAIN agents
            /\ \A i \in DOMAIN agents :
                  agents'[i] = [ agents[i] EXCEPT
                                   !.position = agents'[i].position,
                                   !.prevDirection = agents'[i].prevDirection,
                                   !.visitedPositions = agents'[i].visitedPositions ]
       /\ op' = "assignWork" =>
            /\ interactionCounter' = interactionCounter
            /\ DOMAIN agents' = DOMAIN agents
            /\ \A i \in DOMAIN agents :
                  agents'[i] = [ agents[i] EXCEPT
                                   !.load = agents'[i].load,
                                   !.memory = agents'[i].memory ]
       /\ possiblePositions' = possiblePositions
       /\ possiblePositions = getPossiblePositions(width, length)]_vars

\* an agent that picked the Food up on the interior cell, fired an interaction
\* that armed its cooldown, and then carried the Food to another cell
C33_Witness ==
    /\ op = "moveAnts"
    /\ steps = 4
    /\ \E i \in DOMAIN agents :
          /\ agents[i].load = "food1"
          /\ agents[i].memory = << Food >>
          /\ agents[i].interactionCooldown = 1
          /\ agents[i].position # << 1, 1 >>
          /\ ObjAt(obj, << 1, 1 >>) = NULL

----------------------------------------------------------------------------
(* Claims about the spacing of interactions (SpecCool) *)

----------------------------------------------------------------------------
(* Claims about the order of the agents (Spec) *)

\* the agents in the order p: the agent at index i is the one that stood at
\* index p[i]
Permuted(p) == [ i \in DOMAIN agents |-> agents[p[i]] ]

\* C35: which agents fire in a handleAntInteractions call, by how much the
\* interaction counter grows and the cooldown each agent has after the call
\* are the same for every order in which the same agents stand in the
\* collection.
C35_FiringIsOrderIndependent ==
    [][op' = "handleAntInteractions" =>
          \A p \in Permutations(DOMAIN agents) :
              LET h == handleAntInteractions(Permuted(p), possiblePositions,
                                             interactionCounter,
                                             similarityThreshold,
                                             cooldown_duration)
              IN /\ { p[i] : i \in h.fired } = fired'
                 /\ h.counter = interactionCounter'
                 /\ \A i \in DOMAIN agents :
                       h.agents[i].interactionCooldown
                           = agents'[p[i]].interactionCooldown]_vars

\* two loaded agents on neighboring cells that both fired and armed their
\* cooldowns, whichever of them is scanned first
C35_Witness ==
    /\ op = "handleAntInteractions"
    /\ cooldown_duration = 2
    /\ fired = { 1, 2 }
    /\ agents[1].position # agents[2].position
    /\ agents[1].load # NULL /\ agents[2].load # NULL
    /\ agents[1].interactionCooldown = 1
    /\ agents[2].interactionCooldown = 1

----------------------------------------------------------------------------
(* Claims about encounters (Spec) *)

\* C36: an interaction belongs to the acting agent, not to the pair: when two
\* agents on neighboring cells both carry an object, both have cooldown 0 and
\* each finds its carried category at least threshold times in the other's
\* memory, both fire in the same call, and the counter grows by 2 for the
\* one encounter.
C36_BothAgentsOfAnEncounterFire ==
    [][op' = "handleAntInteractions" =>
          \A a, b \in DOMAIN agents :
              ( /\ a # b
                /\ InNeighborCell(a, b)
                /\ InNeighborCell(b, a)
                /\ agents[a].load # NULL
                /\ agents[b].load # NULL
                /\ agents[a].interactionCooldown = 0
                /\ agents[b].interactionCooldown = 0
                /\ Similarity(a, b) >= similarityThreshold
                /\ Similarity(b, a) >= similarityThreshold )
              => /\ { a, b } \subseteq fired'
                 /\ interactionCounter' >= interactionCounter + 2
                 /\ fired' = { a, b } =>
                       interactionCounter' = interactionCounter + 2]_vars

\* threshold 1: two agents that each carry a Food and remember one met on
\* neighboring cells, and the one encounter counted twice
C36_Witness ==
    /\ op = "handleAntInteractions"
    /\ similarityThreshold = 1
    /\ cooldown_duration = 2
    /\ steps = 2
    /\ fired = { 1, 2 }
    /\ interactionCounter = 2
    /\ agents[1].position # agents[2].position
    /\ agents[1].memory = << Food >> /\ agents[2].memory = << Food >>

----------------------------------------------------------------------------
(* Claims about who can be a partner (Spec) *)

\* C37: an agent that fires has found its partner on one of the up to 8
\* cells around its own: a different agent, never one that shares its cell
\* and never itself.  So a loaded agent with cooldown 0 whose only company
\* stands on its own cell does not fire, even with threshold 0.
C37_PartnersStandOnNeighborCells ==
    [][op' = "handleAntInteractions" =>
          \A a \in DOMAIN agents :
              /\ a \in fired' =>
                    \E b \in DOMAIN agents \ { a } :
                        /\ agents[b].position
                              \in Adjacent(agents[a].position, width, length)
                        /\ Similarity(a, b) >= similarityThreshold
              /\ ( /\ agents[a].load # NULL
                   /\ agents[a].interactionCooldown = 0
                   /\ \A b \in DOMAIN agents :
                         agents[b].position = agents[a].position )
                 => a \notin fired']_vars

\* threshold 0: a loaded agent that has never fired shares its cell with the
\* other agent, and the call passes without an interaction
C37_Witness ==
    /\ op = "handleAntInteractions"
    /\ similarityThreshold = 0
    /\ agents[1].position = agents[2].position
    /\ agents[1].load # NULL
    /\ sinceFired = << Never, Never >>
    /\ fired = {}
    /\ interactionCounter = 0

----------------------------------------------------------------------------
(* Claims about the neighbor relation (SpecMove) *)

\* cell d is in the neighbor list of cell c
Lists(c, d) == d \in Range(possiblePositions[c])

\* C38: on every grid the neighbor relation is symmetric (d is in the list of
\* c exactly when c is in the list of d) and irreflexive (no cell is in its
\* own list), and every move leaves the agent on another cell than it was on.
C38_NeighborRelationIsSymmetricIrreflexive ==
    /\ [](\A c, d \in Cells(width, length) : Lists(c, d) <=> Lists(d, c))
    /\ [](\A c \in Cells(width, length) : ~Lists(c, c))
    /\ [][op' = "moveAnts" =>
            \A i \in DOMAIN agents :
                agents'[i].position # agents[i].position]_vars

====
